---- MODULE Spec2Model ----
(***************************************************************************)
(* Sentinel-AI: the MitigationEngine of model/app/mitigation_engine.py     *)
(* with the SDNController it drives (model/app/sdn_controller.py).         *)
(*                                                                         *)
(* The engine is used by caller threads (execute_mitigation, block_ip,     *)
(* unblock_ip, is_ip_blocked) and by its own daemon clean-up thread.  No   *)
(* lock exists in the source, so every access to blocked_ips or            *)
(* mitigation_history is a step of its own.  Two specifications share the  *)
(* steps: Spec runs the handlers one at a time (each handler runs to its   *)
(* return before the next starts), ConcSpec interleaves them freely.       *)
(*                                                                         *)
(* The other components have their own variables and specifications:       *)
(* CacheSpec is the PerformanceCache of model/app/performance_cache.py     *)
(* used by two threads, whose get and set run under its RLock; DetectSpec  *)
(* is MLDetectionEngine.detect_ddos (model/app/ml_detection.py) under its  *)
(* two decorators, which memoize it in the global PerformanceCache;        *)
(* TrackerSpec is the RateTracker of model/app/app.py; PureSpec applies    *)
(* the functions get_network_slice (model/app/network_slicing.py),         *)
(* build_features and is_ddos_attack (model/app/app.py) to inputs drawn by *)
(* its initial predicate; AppSpec is block_ip and unblock_ip of            *)
(* model/app/app.py and of SDNController, with the answers of the Ryu      *)
(* controller; CaptureSpec is the capture threads of model/app/app.py with *)
(* the start-capture and stop-capture requests that share their flag.      *)
(***************************************************************************)
EXTENDS Integers, Sequences, FiniteSets, TLC

(***************************************************************************)
(* Bounds of the model.                                                    *)
(***************************************************************************)
\* the clock advances in steps of TimeStep up to MaxTime
TimeStep == 3600
MaxTime == 10800
\* cap on the packets_blocked counter of a record
MaxPackets == 2
\* config['max_history'] (mitigation_engine.py:20 sets 1000); scaled down so
\* that the history can outgrow it
max_history == 1
\* cap on the number of control-plane block calls in a run
MaxCalls == max_history + 1
\* number of handler calls in a run of interleaved handlers (ConcSpec)
MaxStarted == 3
\* get_mitigation_history is called with the limits 0..MaxLimit
MaxLimit == 2
\* PerformanceCache(max_size=1000) (performance_cache.py:8); scaled down so
\* that the store fills up
max_size == 2
\* the clock of the cache specifications advances in steps of CacheStep up to
\* MaxCacheTime
CacheStep == 15
MaxCacheTime == 45
\* add_metric keeps the last 100 metrics of an endpoint
\* (performance_cache.py:43); scaled down
max_metrics == 1
\* number of detect_ddos calls in a run (DetectSpec)
MaxDetects == 3
\* the clock of TrackerSpec advances by 1 up to MaxRateTime, and timestamps
\* are 0..MaxRateTime
MaxRateTime == 3
\* number of add calls per source in a run (TrackerSpec)
MaxEvents == 3
\* largest model.n_features_in_ (PureSpec)
MaxFeatures == 11

(***************************************************************************)
(* Program constants (self.config, mitigation_engine.py:16-22).            *)
(* Confidences are in hundredths: 0.5 is 50.                               *)
(***************************************************************************)
ddos_threshold == 50
block_duration == 3600
check_interval == 60
\* PerformanceCache(ttl=30) (performance_cache.py:8), in seconds
ttl == 30
\* @cache_result(ttl=10) on detect_ddos (ml_detection.py:83), in seconds
decorator_ttl == 10
\* rate_tracker = RateTracker(window=1.0) (app.py:169), in seconds
window == 1
\* LIVE_POST_INTERVAL = 0.1 (app.py:227), in tenths of a second
LIVE_POST_INTERVAL == 1

Callers == {"c1", "c2"}
Sweeper == "cleanup"
Threads == Callers \cup {Sweeper}

\* source addresses: a valid one, the two sentinels, and the empty string
ValidIPs == {"10.0.0.5"}
Sentinels == {"unknown", "0.0.0.0"}
IPs == ValidIPs \cup Sentinels \cup {""}

VARIABLES
    blocked_ips,          \* self.blocked_ips: ordered dict ip -> record
    mitigation_history,   \* self.mitigation_history: list of entries
    sdn_blocked,          \* sources the controller currently drops
    now,                  \* time.time()
    wake,                 \* when time.sleep(check_interval) of the sweep ends
    pc,                   \* position of each thread
    op,                   \* the handler each thread runs (or ran last)
    loc,                  \* locals of each thread
    block_calls,          \* history variable: control-plane block calls made
    entry,                \* history variable: the shared state at the entry of
                          \* a handler, kept while no other handler runs
    started,              \* history variable: handlers started, up to MaxStarted
    cache,                \* performance_cache.cache: ordered dict key -> value
    access_times,         \* performance_cache.access_times: key -> time stored
    lock,                 \* performance_cache.lock: the thread holding it
    metrics,              \* performance_cache.metrics: endpoint -> deque
    cpc,                  \* position of each thread in the cache's methods
    cloc,                 \* locals of each thread in the cache's methods
    centry,               \* history variable: the store when the lock was
                          \* taken last, and by whom
    detects,              \* history variable: detect_ddos calls started
    timestamps,           \* rate_tracker.timestamps: ordered dict ip -> deque
    rt_last,              \* the RateTracker call made last, and its result
    recorded,             \* history variable: the timestamps recorded for
                          \* every source, in the order of the add calls
    fn_in,                \* PureSpec: the arguments and the loaded model
    fn_out,               \* PureSpec: the function applied last, its result
    BLOCKED_IPS,          \* app.py:53, the set of sources the app has blocked
    app_last,             \* AppSpec: the block/unblock call made last
    last_ok,              \* history variable: for every source the
                          \* control-plane call that succeeded last
    running,              \* app.py:54, the capture flag
    capture,              \* the capture threads in the order of their start,
                          \* each with its position in capture_loop
    req,                  \* position of each request thread in start_capture
    stop_seen,            \* history variable: stop_capture has run since a
                          \* start request set the flag last
    last_live_ts          \* app.py:226, when the last live packet was posted

vars == <<blocked_ips, mitigation_history, sdn_blocked, now, wake,
          pc, op, loc, block_calls, entry, started,
          cache, access_times, lock, metrics, cpc, cloc, centry, detects,
          timestamps, rt_last, recorded, fn_in, fn_out, BLOCKED_IPS, app_last,
          last_ok, running, capture, req, stop_seen, last_live_ts>>

\* the variables of the MitigationEngine but the clock
engine_vars == <<blocked_ips, mitigation_history, sdn_blocked, wake,
                 pc, op, loc, block_calls, entry, started, last_ok>>

cache_vars == <<cache, access_times, lock, metrics, cpc, cloc, centry, detects>>

tracker_vars == <<timestamps, rt_last, recorded>>

pure_vars == <<fn_in, fn_out>>

app_vars == <<BLOCKED_IPS, app_last>>

capture_vars == <<running, capture, req, stop_seen, last_live_ts>>

\* what the MitigationEngine never touches
beside_engine ==
    <<cache_vars, tracker_vars, pure_vars, app_vars, capture_vars>>

(***************************************************************************)
(* Python dict (insertion-ordered) as a sequence of [key, val] items.      *)
(***************************************************************************)
Keys(d) == {d[i].key : i \in DOMAIN d}

Has(d, k) == k \in Keys(d)

Idx(d, k) == CHOOSE i \in DOMAIN d : d[i].key = k

Get(d, k) == d[Idx(d, k)].val

Put(d, k, v) ==
    IF Has(d, k) THEN [d EXCEPT ![Idx(d, k)].val = v]
    ELSE Append(d, [key |-> k, val |-> v])

Del(d, k) == SelectSeq(d, LAMBDA e : e.key # k)

\* dict.get(key, default) on an argument dict (a function on its keys)
DictGet(f, k, default) == IF k \in DOMAIN f THEN f[k] ELSE default

\* Python s[i:] for any integer i
SliceFrom(s, i) ==
    LET n == Len(s)
        start == IF i < 0 THEN (IF n + i < 0 THEN 0 ELSE n + i)
                 ELSE (IF i > n THEN n ELSE i)
    IN  SubSeq(s, start + 1, n)

\* str.lower() on the prediction labels
Lower(s) ==
    CASE s = "DDoS" -> "ddos"
      [] s = "DDOS" -> "ddos"
      [] OTHER -> s

(***************************************************************************)
(* Arguments of the handlers.                                              *)
(***************************************************************************)
\* verdicts on both sides of ddos_threshold, in both spellings of the label,
\* a benign one, and the two with a missing key
DetectionResults ==
    {[prediction |-> "DDoS", confidence |-> 50],
     [prediction |-> "ddos", confidence |-> 49],
     [prediction |-> "normal", confidence |-> 50],
     [prediction |-> "ddos"],
     [confidence |-> 50]}

FlowInfos ==
    {[src_ip |-> a] : a \in IPs} \cup {[dst_ip |-> "10.0.0.1"]}

NoResult ==
    [status |-> "none", ip |-> "", packets_blocked |-> 0, since |-> 0,
     entries |-> <<>>]

Res(status, ip) == [NoResult EXCEPT !.status = status, !.ip = ip]

\* locals of a handler: ip/det/flow/confidence/success are the source's
\* arguments and locals; t0 is the sweep's `now`, used the dict size its
\* iterator saw, ref/pkts the record object and counter read by `+= 1`, obj the
\* identity of the record object block_ip creates, since the timestamp read
\* for the result, cut the slice about to be assigned, res the value returned;
\* ok and tried record the sweep's control-plane unblock calls; limit is the
\* argument of get_mitigation_history
NoLoc ==
    [ip |-> "", det |-> [confidence |-> 0], flow |-> [src_ip |-> ""],
     confidence |-> 0, success |-> FALSE, expired |-> <<>>, t0 |-> 0, used |-> 0,
     ref |-> 0, pkts |-> 0, since |-> 0, cut |-> <<>>, obj |-> 0, ok |-> {},
     tried |-> {}, limit |-> 0, res |-> NoResult]

Snapshot(t) ==
    [of |-> t, reg |-> blocked_ips, hist |-> mitigation_history,
     calls |-> block_calls, sdn |-> sdn_blocked, det |-> NoLoc.det]

NoEntry == [of |-> "none", reg |-> <<>>, hist |-> <<>>, calls |-> 0, sdn |-> {},
            det |-> NoLoc.det]

\* MitigationEngine.__init__
EngineInit ==
    /\ blocked_ips = <<>>
    /\ mitigation_history = <<>>
    /\ sdn_blocked = {}
    /\ now = 0
    /\ wake = 0
    /\ pc = [t \in Threads |-> "idle"]
    /\ op = [t \in Threads |-> "none"]
    /\ loc = [t \in Threads |-> NoLoc]
    /\ block_calls = 0
    /\ entry = NoEntry
    /\ started = 0
    /\ last_ok = [a \in ValidIPs |-> "none"]

\* locals of a thread in a method of the cache: key and val are the
\* arguments, res the value returned (None is "None"), served whether get
\* returned a value, hit whether get found the key, age the age of the entry
\* get found, oldest the key set evicted; and in detect_ddos: start and start1
\* the start_time of the two decorators, duration the one measured last, todo
\* the add_metric calls to come, invoked whether the decorated function ran
NoCLoc ==
    [op |-> "none", key |-> "", val |-> "", res |-> "None", served |-> FALSE,
     hit |-> FALSE, age |-> 0, oldest |-> "", start |-> 0, start1 |-> 0,
     duration |-> 0, todo |-> 0, invoked |-> FALSE]

NoCEntry == [of |-> "none", cache |-> <<>>, access_times |-> <<>>]

\* PerformanceCache.__init__ (performance_cache.py:8-14)
CacheInit ==
    /\ cache = <<>>
    /\ access_times = <<>>
    /\ lock = "none"
    /\ metrics = <<>>
    /\ cpc = [t \in Callers |-> "idle"]
    /\ cloc = [t \in Callers |-> NoCLoc]
    /\ centry = NoCEntry
    /\ detects = 0

RateSources == {"10.0.0.5", "10.0.0.9"}

NoRateCall == [op |-> "none", src_ip |-> "", ts |-> 0, res |-> 0]

\* RateTracker.__init__ (app.py:155-157)
TrackerInit ==
    /\ timestamps = <<>>
    /\ rt_last = NoRateCall
    /\ recorded = [a \in RateSources |-> <<>>]

\* joblib.load failed or no model file: model = None (app.py:62-70)
NoModel == [loaded |-> FALSE, n_features_in_ |-> 0, pred |-> 0, prob |-> 0,
            fails |-> FALSE]

NoInput == [packet_size |-> 0, protocol |-> "TCP", pps |-> 0,
            model |-> NoModel, src_ip |-> "10.0.0.5", simulated |-> FALSE,
            FORCE_MALICIOUS_IPS |-> {},
            out |-> [failed |-> TRUE, pred |-> 0, proba |-> 0]]

\* calls: whether build_features and the model were invoked on the way
NoOutput == [fn |-> "none", res |-> "None", calls |-> {}]

PureIdle ==
    /\ fn_in = NoInput
    /\ fn_out = NoOutput

\* what Ryu answered to a request: raised is a timeout or a connection
\* error of requests.post
NoResponse == [raised |-> FALSE, status_code |-> 0]

NoAppCall == [op |-> "none", ip |-> "", requested |-> FALSE, r |-> NoResponse,
              res |-> FALSE, before |-> {}]

\* app.py:53
AppInit ==
    /\ BLOCKED_IPS = {}
    /\ app_last = NoAppCall

\* app.py:54, no capture thread and no request yet
CaptureInit ==
    /\ running = FALSE
    /\ capture = <<>>
    /\ req = [t \in Callers |-> "idle"]
    /\ stop_seen = FALSE
    /\ last_live_ts = 0

Init ==
    /\ EngineInit /\ CacheInit /\ TrackerInit /\ PureIdle /\ AppInit
    /\ CaptureInit

(***************************************************************************)
(* Pure parts of the handlers.                                             *)
(***************************************************************************)
\* mutant: only one of the two sentinels is refused
InvalidSourceOnlyUnknown(src_ip) == src_ip = "unknown"

\* execute_mitigation, line 53
InvalidSource(src_ip) == src_ip \in {"unknown", "0.0.0.0"}

\* block_ip, line 90
RefusedIP(ip) == ip = "" \/ ip \in {"0.0.0.0", "unknown"}

\* execute_mitigation, lines 65-68
is_ddos(detection_result) == Lower(DictGet(detection_result, "prediction", "")) = "ddos"

Confidence(detection_result) == DictGet(detection_result, "confidence", 0)

\* mutant: a confidence equal to the threshold does not block
ShouldBlockAbove(detection_result) ==
    /\ Lower(DictGet(detection_result, "prediction", "")) = "ddos"
    /\ DictGet(detection_result, "confidence", 0) > ddos_threshold

ShouldBlock(detection_result) ==
    is_ddos(detection_result) /\ Confidence(detection_result) >= ddos_threshold

\* is_ip_blocked, line 45 and line 46
Seen(rec, t) == [rec EXCEPT !.last_seen = t]

\* mutant: the counter is not incremented
NotCounted(rec, n) == rec

Counted(rec, n) == [rec EXCEPT !.packets_blocked = n + 1]

\* block_ip, lines 98-104
NewRecord(confidence, reason, t, id) ==
    [timestamp |-> t, confidence |-> confidence, packets_blocked |-> 0,
     reason |-> reason, last_seen |-> t, id |-> id]

\* mutant: the record is stored whatever the control plane answered
StoredAlways(d, ip, rec, success) == Put(d, ip, rec)

\* block_ip, lines 97-104: the registry after the control-plane call
Stored(d, ip, rec, success) == IF success THEN Put(d, ip, rec) ELSE d

\* mutant: the record is deleted whatever the control plane answered
RemovedAlways(d, ip, success) == Del(d, ip)

\* unblock_ip, lines 115-116: the registry after the control-plane call
Removed(d, ip, success) == IF success THEN Del(d, ip) ELSE d

\* execute_mitigation, lines 70-76
BlockedEntry(t, ip, confidence, flow_info) ==
    [timestamp |-> t, ip |-> ip, confidence |-> confidence, action |-> "BLOCKED",
     details |-> flow_info]

\* mutant: a record expires already at the age block_duration
IsExpiredAtDuration(t, d) == t - d.timestamp >= block_duration

\* _cleanup_expired_blocks, line 35
IsExpired(t, d) == t - d.timestamp > block_duration

ExpiredKeys(d, t) ==
    LET hit == SelectSeq(d, LAMBDA e : IsExpired(t, e.val))
    IN  [i \in DOMAIN hit |-> hit[i].key]

\* _cleanup_expired_blocks, lines 40-41
Truncated(h) == SliceFrom(h, -max_history)

(***************************************************************************)
(* Returning and raising.                                                  *)
(***************************************************************************)
Quiet == \A u \in Threads : pc[u] \in {"idle", "dead"}

\* the handler has its result (pc "ret") or an exception leaves it (pc "raised")
Done(t, res) ==
    /\ pc' = [pc EXCEPT ![t] = "ret"]
    /\ loc' = [loc EXCEPT ![t] = [NoLoc EXCEPT !.ip = loc[t].ip, !.res = res,
                                               !.success = loc[t].success,
                                               !.t0 = loc[t].t0, !.ok = loc[t].ok,
                                               !.tried = loc[t].tried]]
    /\ UNCHANGED <<op, entry, started, beside_engine>>

Raise(t, exc) ==
    /\ pc' = [pc EXCEPT ![t] = "raised"]
    /\ loc' = [loc EXCEPT ![t] = [NoLoc EXCEPT !.ip = loc[t].ip,
                                               !.res = Res(exc, loc[t].ip)]]
    /\ UNCHANGED <<op, entry, started, beside_engine>>

\* the handler goes on at `where` with locals l
Goto(t, where, l) ==
    /\ pc' = [pc EXCEPT ![t] = where]
    /\ loc' = [loc EXCEPT ![t] = l]
    /\ UNCHANGED <<op, entry, started, beside_engine>>

\* a handler starts
Enter(t, o, where, l) ==
    /\ pc' = [pc EXCEPT ![t] = where]
    /\ op' = [op EXCEPT ![t] = o]
    /\ loc' = [loc EXCEPT ![t] = l]
    /\ entry' = IF Quiet THEN [Snapshot(t) EXCEPT !.det = l.det] ELSE NoEntry
    /\ started' = IF started < MaxStarted THEN started + 1 ELSE started
    /\ UNCHANGED beside_engine

\* block calls that handlers already started may still make
Pending ==
    Cardinality({u \in Callers : pc[u] \in {"ib_check", "bl_call"}
                                  /\ op[u] \in {"execute_mitigation", "block_ip"}})

CanBlock == block_calls + Pending < MaxCalls

CanCount(ip) ==
    Has(blocked_ips, ip) => Get(blocked_ips, ip).packets_blocked < MaxPackets

(***************************************************************************)
(* execute_mitigation, is_ip_blocked.                                      *)
(***************************************************************************)
\* the call, lines 51-54: a sentinel source returns at once
execute_mitigation(t, detection_result, flow_info) ==
    LET src_ip == DictGet(flow_info, "src_ip", "unknown") IN
    /\ t \in Callers /\ pc[t] = "idle"
    /\ CanBlock /\ CanCount(src_ip)
    /\ IF InvalidSource(src_ip)
       THEN Enter(t, "execute_mitigation", "ret",
                  [NoLoc EXCEPT !.ip = src_ip, !.res = Res("error", src_ip)])
       ELSE Enter(t, "execute_mitigation", "ib_check",
                  [NoLoc EXCEPT !.ip = src_ip, !.det = detection_result,
                                !.flow = flow_info])
    /\ UNCHANGED <<blocked_ips, mitigation_history, sdn_blocked, last_ok, now, wake,
                   block_calls>>

\* is_ip_blocked called on its own
is_ip_blocked(t, ip) ==
    /\ t \in Callers /\ pc[t] = "idle"
    /\ CanCount(ip)
    /\ Enter(t, "is_ip_blocked", "ib_check", [NoLoc EXCEPT !.ip = ip])
    /\ UNCHANGED <<blocked_ips, mitigation_history, sdn_blocked, last_ok, now, wake,
                   block_calls>>

\* line 44, `ip in self.blocked_ips`; when absent is_ip_blocked returns False
\* and execute_mitigation goes on with lines 65-68 and the guard of block_ip
\* (line 90)
ib_check(t) ==
    /\ pc[t] = "ib_check"
    /\ IF Has(blocked_ips, loc[t].ip)
       THEN Goto(t, "ib_seen", [NoLoc EXCEPT !.ip = loc[t].ip])
       ELSE IF op[t] = "is_ip_blocked"
            THEN Done(t, Res("False", loc[t].ip))
            ELSE IF ~ShouldBlock(loc[t].det)
                 THEN Done(t, Res("normal", loc[t].ip))
                 ELSE IF RefusedIP(loc[t].ip)
                      THEN Done(t, Res("block_failed", loc[t].ip))
                      ELSE Goto(t, "bl_call",
                                [NoLoc EXCEPT !.ip = loc[t].ip, !.flow = loc[t].flow,
                                              !.confidence = Confidence(loc[t].det)])
    /\ UNCHANGED <<blocked_ips, mitigation_history, sdn_blocked, last_ok, now, wake,
                   block_calls>>

\* line 45, `self.blocked_ips[ip]['last_seen'] = time.time()`
ib_seen(t) ==
    /\ pc[t] = "ib_seen"
    /\ IF Has(blocked_ips, loc[t].ip)
       THEN /\ blocked_ips' = Put(blocked_ips, loc[t].ip,
                                  Seen(Get(blocked_ips, loc[t].ip), now))
            /\ Goto(t, "ib_read", loc[t])
       ELSE Raise(t, "KeyError") /\ UNCHANGED blocked_ips
    /\ UNCHANGED <<mitigation_history, sdn_blocked, last_ok, now, wake, block_calls>>

\* line 46, `self.blocked_ips[ip]['packets_blocked'] += 1`: the load
ib_read(t) ==
    /\ pc[t] = "ib_read"
    /\ IF Has(blocked_ips, loc[t].ip)
       THEN Goto(t, "ib_write",
                 [loc[t] EXCEPT !.ref = Get(blocked_ips, loc[t].ip).id,
                                !.pkts = Get(blocked_ips, loc[t].ip).packets_blocked])
       ELSE Raise(t, "KeyError")
    /\ UNCHANGED <<blocked_ips, mitigation_history, sdn_blocked, last_ok, now, wake,
                   block_calls>>

\* line 46: the store, into the record object that was loaded (a record that
\* left the registry meanwhile is written without effect); line 47 returns
ib_write(t) ==
    /\ pc[t] = "ib_write"
    /\ blocked_ips' =
          IF Has(blocked_ips, loc[t].ip) /\ Get(blocked_ips, loc[t].ip).id = loc[t].ref
          THEN Put(blocked_ips, loc[t].ip,
                   Counted(Get(blocked_ips, loc[t].ip), loc[t].pkts))
          ELSE blocked_ips
    /\ IF op[t] = "is_ip_blocked"
       THEN Done(t, Res("True", loc[t].ip))
       ELSE Goto(t, "em_since", [NoLoc EXCEPT !.ip = loc[t].ip])
    /\ UNCHANGED <<mitigation_history, sdn_blocked, last_ok, now, wake, block_calls>>

\* line 60, `self.blocked_ips[src_ip]['timestamp']`
em_since(t) ==
    /\ pc[t] = "em_since"
    /\ IF Has(blocked_ips, loc[t].ip)
       THEN Goto(t, "em_pkts",
                 [loc[t] EXCEPT !.since = Get(blocked_ips, loc[t].ip).timestamp])
       ELSE Raise(t, "KeyError")
    /\ UNCHANGED <<blocked_ips, mitigation_history, sdn_blocked, last_ok, now, wake,
                   block_calls>>

\* lines 61-63, `self.blocked_ips[src_ip]['packets_blocked']` and the return
em_pkts(t) ==
    /\ pc[t] = "em_pkts"
    /\ IF Has(blocked_ips, loc[t].ip)
       THEN Done(t, [Res("already_blocked", loc[t].ip) EXCEPT
                        !.packets_blocked = Get(blocked_ips, loc[t].ip).packets_blocked,
                        !.since = loc[t].since])
       ELSE Raise(t, "KeyError")
    /\ UNCHANGED <<blocked_ips, mitigation_history, sdn_blocked, last_ok, now, wake,
                   block_calls>>

(***************************************************************************)
(* block_ip.                                                               *)
(***************************************************************************)
\* block_ip called on its own (reason and confidence at their defaults),
\* lines 89-92
block_ip(t, ip) ==
    /\ t \in Callers /\ pc[t] = "idle"
    /\ CanBlock
    /\ IF RefusedIP(ip)
       THEN Enter(t, "block_ip", "ret",
                  [NoLoc EXCEPT !.ip = ip, !.res = Res("False", ip)])
       ELSE Enter(t, "block_ip", "bl_call", [NoLoc EXCEPT !.ip = ip])
    /\ UNCHANGED <<blocked_ips, mitigation_history, sdn_blocked, last_ok, now, wake,
                   block_calls>>

\* SDNController.block_ip (sdn_controller.py:49-62): True only on a 200/201
\* answer; the controller may have installed the rule although the answer was
\* lost or late
sdn_block(ip, applied, ok) ==
    /\ ok => applied
    /\ sdn_blocked' = IF applied THEN sdn_blocked \cup {ip} ELSE sdn_blocked
    /\ last_ok' = IF ok THEN [last_ok EXCEPT ![ip] = "block"] ELSE last_ok

\* line 95, `success = self.sdn_controller.block_ip(ip)`
bl_call(t) ==
    /\ pc[t] = "bl_call"
    /\ \E applied, ok \in BOOLEAN :
          /\ sdn_block(loc[t].ip, applied, ok)
          /\ Goto(t, "bl_store", [loc[t] EXCEPT !.success = ok,
                                                !.obj = block_calls + 1])
    /\ block_calls' = block_calls + 1
    /\ UNCHANGED <<blocked_ips, mitigation_history, now, wake>>

\* lines 97-109, and the caller's branch in execute_mitigation (lines 69, 85)
bl_store(t) ==
    /\ pc[t] = "bl_store"
    /\ blocked_ips' =
          Stored(blocked_ips, loc[t].ip,
                 NewRecord(loc[t].confidence,
                           IF op[t] = "block_ip" THEN "DDoS Detection" ELSE "DDoS detected",
                           now, loc[t].obj),
                 loc[t].success)
    /\ IF op[t] = "block_ip"
       THEN Done(t, Res(IF loc[t].success THEN "True" ELSE "False", loc[t].ip))
       ELSE IF loc[t].success
            THEN Goto(t, "em_append", loc[t])
            ELSE Done(t, Res("block_failed", loc[t].ip))
    /\ UNCHANGED <<mitigation_history, sdn_blocked, last_ok, now, wake, block_calls>>

\* lines 70-83
em_append(t) ==
    /\ pc[t] = "em_append"
    /\ mitigation_history' =
          Append(mitigation_history,
                 BlockedEntry(now, loc[t].ip, loc[t].confidence, loc[t].flow))
    /\ Done(t, Res("blocked", loc[t].ip))
    /\ UNCHANGED <<blocked_ips, sdn_blocked, last_ok, now, wake, block_calls>>

(***************************************************************************)
(* unblock_ip, called by a caller or by the sweep.                         *)
(***************************************************************************)
unblock_ip(t, ip) ==
    /\ t \in Callers /\ pc[t] = "idle"
    /\ Enter(t, "unblock_ip", "ub_check", [NoLoc EXCEPT !.ip = ip])
    /\ UNCHANGED <<blocked_ips, mitigation_history, sdn_blocked, last_ok, now, wake,
                   block_calls>>

\* lines 112-113
ub_check(t) ==
    /\ pc[t] = "ub_check"
    /\ IF Has(blocked_ips, loc[t].ip)
       THEN Goto(t, "ub_call", loc[t])
       ELSE IF op[t] = "sweep"
            THEN Goto(t, "cl_loop", loc[t])
            ELSE Done(t, Res("False", loc[t].ip))
    /\ UNCHANGED <<blocked_ips, mitigation_history, sdn_blocked, last_ok, now, wake,
                   block_calls>>

\* SDNController.unblock_ip (sdn_controller.py:64-77)
sdn_unblock(ip, applied, ok) ==
    /\ ok => applied
    /\ sdn_blocked' = IF applied THEN sdn_blocked \ {ip} ELSE sdn_blocked
    /\ last_ok' = IF ok THEN [last_ok EXCEPT ![ip] = "unblock"] ELSE last_ok

\* line 114, `success = self.sdn_controller.unblock_ip(ip)`
ub_call(t) ==
    /\ pc[t] = "ub_call"
    /\ \E applied, ok \in BOOLEAN :
          /\ sdn_unblock(loc[t].ip, applied, ok)
          /\ Goto(t, "ub_del",
                  [loc[t] EXCEPT !.success = ok,
                                 !.tried = @ \cup {loc[t].ip},
                                 !.ok = IF ok THEN @ \cup {loc[t].ip} ELSE @])
    /\ UNCHANGED <<blocked_ips, mitigation_history, now, wake, block_calls>>

\* lines 115-118, `del self.blocked_ips[ip]` and the return
ub_del(t) ==
    /\ pc[t] = "ub_del"
    /\ IF loc[t].success /\ ~Has(blocked_ips, loc[t].ip)
       THEN Raise(t, "KeyError") /\ UNCHANGED blocked_ips
       ELSE /\ blocked_ips' = Removed(blocked_ips, loc[t].ip, loc[t].success)
            /\ IF op[t] = "sweep"
               THEN Goto(t, "cl_loop", loc[t])
               ELSE Done(t, Res(IF loc[t].success THEN "True" ELSE "False", loc[t].ip))
    /\ UNCHANGED <<mitigation_history, sdn_blocked, last_ok, now, wake, block_calls>>

(***************************************************************************)
(* The clean-up thread: cleanup_loop and _cleanup_expired_blocks.          *)
(***************************************************************************)
\* lines 28-29 and 34: the sleep is over, `now = time.time()`, and the
\* iteration over self.blocked_ips.items() starts
cleanup_begin(t) ==
    /\ t = Sweeper /\ pc[t] = "idle"
    /\ now >= wake
    /\ Enter(t, "sweep", "cl_scan", [NoLoc EXCEPT !.t0 = now, !.used = Len(blocked_ips)])
    /\ UNCHANGED <<blocked_ips, mitigation_history, sdn_blocked, last_ok, now, wake,
                   block_calls>>

\* line 35: the list comprehension; a dict whose size changed under the
\* iterator raises RuntimeError
cl_scan(t) ==
    /\ pc[t] = "cl_scan"
    /\ IF Len(blocked_ips) # loc[t].used
       THEN Raise(t, "RuntimeError")
       ELSE Goto(t, "cl_loop",
                 [loc[t] EXCEPT !.expired = ExpiredKeys(blocked_ips, loc[t].t0)])
    /\ UNCHANGED <<blocked_ips, mitigation_history, sdn_blocked, last_ok, now, wake,
                   block_calls>>

\* lines 36-38: `for ip in expired: self.unblock_ip(ip)`
cl_loop(t) ==
    /\ pc[t] = "cl_loop"
    /\ IF loc[t].expired = <<>>
       THEN Goto(t, "cl_trunc", loc[t])
       ELSE Goto(t, "ub_check", [loc[t] EXCEPT !.ip = Head(loc[t].expired),
                                               !.expired = Tail(loc[t].expired)])
    /\ UNCHANGED <<blocked_ips, mitigation_history, sdn_blocked, last_ok, now, wake,
                   block_calls>>

\* lines 40-41: the test and the slice of mitigation_history
cl_trunc(t) ==
    /\ pc[t] = "cl_trunc"
    /\ IF Len(mitigation_history) > max_history
       THEN Goto(t, "cl_assign", [loc[t] EXCEPT !.cut = Truncated(mitigation_history)])
       ELSE Done(t, Res("swept", ""))
    /\ UNCHANGED <<blocked_ips, mitigation_history, sdn_blocked, last_ok, now, wake,
                   block_calls>>

\* line 41: the assignment of the slice
cl_assign(t) ==
    /\ pc[t] = "cl_assign"
    /\ mitigation_history' = loc[t].cut
    /\ Done(t, Res("swept", ""))
    /\ UNCHANGED <<blocked_ips, sdn_blocked, last_ok, now, wake, block_calls>>

(***************************************************************************)
(* get_mitigation_history.                                                 *)
(***************************************************************************)
\* line 134, `self.mitigation_history[-limit:]`
LatestEntries(h, limit) == SliceFrom(h, -limit)

\* lines 133-134: one read of the list
get_mitigation_history(t, limit) ==
    /\ t \in Callers /\ pc[t] = "idle"
    /\ Enter(t, "get_mitigation_history", "ret",
             [NoLoc EXCEPT !.limit = limit,
                           !.res = [Res("history", "") EXCEPT
                                       !.entries = LatestEntries(mitigation_history, limit)]])
    /\ UNCHANGED <<blocked_ips, mitigation_history, sdn_blocked, last_ok, now, wake,
                   block_calls>>

(***************************************************************************)
(* The end of a handler.                                                   *)
(***************************************************************************)
\* the result or the exception reaches the caller and the frame is gone.
\* The clean-up thread goes to sleep for check_interval after a sweep (line
\* 30); cleanup_loop (lines 27-30) catches nothing, so an exception ends it
ret(t) ==
    /\ pc[t] \in {"ret", "raised"}
    /\ pc' = [pc EXCEPT ![t] = IF t = Sweeper /\ pc[t] = "raised" THEN "dead" ELSE "idle"]
    /\ op' = [op EXCEPT ![t] = "none"]
    /\ loc' = [loc EXCEPT ![t] = NoLoc]
    /\ entry' = IF entry.of = t THEN NoEntry ELSE entry
    /\ wake' = IF t = Sweeper /\ pc[t] = "ret" THEN now + check_interval ELSE wake
    /\ UNCHANGED <<blocked_ips, mitigation_history, sdn_blocked, last_ok, now, block_calls,
                   started, beside_engine>>

\* time passes
Tick ==
    /\ now + TimeStep <= MaxTime
    /\ now' = now + TimeStep
    /\ UNCHANGED <<engine_vars, beside_engine>>

(***************************************************************************)
(* Specifications.                                                         *)
(***************************************************************************)
Step(t) ==
    \/ ib_check(t) \/ ib_seen(t) \/ ib_read(t) \/ ib_write(t)
    \/ em_since(t) \/ em_pkts(t)
    \/ bl_call(t) \/ bl_store(t) \/ em_append(t)
    \/ ub_check(t) \/ ub_call(t) \/ ub_del(t)
    \/ cl_scan(t) \/ cl_loop(t) \/ cl_trunc(t) \/ cl_assign(t)
    \/ ret(t)

Call(t) ==
    \/ \E d \in DetectionResults, f \in FlowInfos : execute_mitigation(t, d, f)
    \/ \E ip \in ValidIPs : is_ip_blocked(t, ip)
    \/ \E ip \in IPs : block_ip(t, ip)
    \/ \E ip \in ValidIPs : unblock_ip(t, ip)
    \/ \E limit \in 0..MaxLimit : get_mitigation_history(t, limit)
    \/ cleanup_begin(t)

\* handlers run one at a time
Next ==
    \/ Tick
    \/ \E t \in Threads : Quiet /\ Call(t)
    \/ \E t \in Threads : Step(t)

Spec == Init /\ [][Next]_vars

\* handlers of different threads interleave at every access to shared
\* state; a run has MaxStarted handler calls
ConcNext ==
    \/ Tick
    \/ \E t \in Threads : started < MaxStarted /\ Call(t)
    \/ \E t \in Threads : Step(t)

ConcSpec == Init /\ [][ConcNext]_vars

(***************************************************************************)
(* PerformanceCache (performance_cache.py:7-37).  Every method body runs   *)
(* under `with self.lock`; the steps of a body are the test and the        *)
(* updates it makes.  Time is read in seconds.                             *)
(***************************************************************************)
CacheKeys == {"k1", "k2", "k3"}

CacheValues == {"v1", "v2"}

\* mutant: the lock excludes nobody
NeverHeld(t) == TRUE

\* threading.RLock (line 13): free, or held by the thread itself
Acquirable(t) == lock \in {"none", t}

\* mutant: an entry expires only after ttl
FreshAtTtl(stored_at, t) == t - stored_at <= ttl

\* get, line 20
Fresh(stored_at, t) == t - stored_at < ttl

\* mutant: the entry stored last is evicted
NewestKey(times) ==
    LET i == CHOOSE i \in DOMAIN times :
                 /\ \A j \in DOMAIN times : times[j].val <= times[i].val
                 /\ \A j \in 1..(i - 1) : times[j].val < times[i].val
    IN  times[i].key

\* set, line 32: min() over the keys by stored time; of several keys with
\* the least time min() returns the first in the order of the dict
OldestKey(times) ==
    LET i == CHOOSE i \in DOMAIN times :
                 /\ \A j \in DOMAIN times : times[i].val <= times[j].val
                 /\ \A j \in 1..(i - 1) : times[i].val < times[j].val
    IN  times[i].key

\* set, line 31
Full(c, key) == Len(c) >= max_size

CQuiet == \A u \in Callers : cpc[u] = "idle"

CGoto(t, where, l) ==
    /\ cpc' = [cpc EXCEPT ![t] = where]
    /\ cloc' = [cloc EXCEPT ![t] = l]
    /\ detects' = IF cpc[t] = "idle" /\ l.op = "detect_ddos" THEN detects + 1
                  ELSE detects
    /\ UNCHANGED <<tracker_vars, pure_vars, app_vars,
                 capture_vars>>

\* performance_monitor and cache_result, lines 72 and 91: milliseconds
Duration(start_time, t) == (t - start_time) * 1000

\* the `with` block is left and the method returns; in detect_ddos the
\* decorator goes on.  After get: a value that was served is returned
\* (cache_result, lines 66-67) and performance_monitor records its metric
\* (lines 91-92); otherwise the decorated function is called (line 70).
\* After set: add_metric (line 78)
CReturn(t, l) ==
    /\ CGoto(t, IF l.op # "detect_ddos" THEN "ret"
                ELSE IF cpc[t] \in {"cg_lookup", "cg_expire"}
                     THEN (IF l.served THEN "am_lock" ELSE "dd_start")
                     ELSE "am_lock",
             IF l.op = "detect_ddos" /\ cpc[t] \in {"cg_lookup", "cg_expire"}
             THEN (IF l.served
                   THEN [l EXCEPT !.todo = 1, !.duration = Duration(l.start, now)]
                   ELSE l)
             ELSE l)
    /\ lock' = "none"

\* get(key) is called
cache_get(t, key) ==
    /\ t \in Callers /\ cpc[t] = "idle"
    /\ CGoto(t, "cg_lock", [NoCLoc EXCEPT !.op = "get", !.key = key])
    /\ UNCHANGED <<cache, access_times, lock, metrics, centry, now, engine_vars>>

\* set(key, value) is called
cache_set(t, key, value) ==
    /\ t \in Callers /\ cpc[t] = "idle"
    /\ CGoto(t, "cs_lock", [NoCLoc EXCEPT !.op = "set", !.key = key, !.val = value])
    /\ UNCHANGED <<cache, access_times, lock, metrics, centry, now, engine_vars>>

\* `with self.lock` (lines 17, 29, 40).  A method that has returned hands its
\* value to its caller (cache_ret, a step local to that thread) before the
\* lock is taken again
acquire(t) ==
    /\ cpc[t] \in {"cg_lock", "cs_lock", "am_lock"}
    /\ Acquirable(t)
    /\ \A u \in Callers : cpc[u] # "ret"
    /\ lock' = t
    /\ centry' = [of |-> t, cache |-> cache, access_times |-> access_times]
    /\ CGoto(t, CASE cpc[t] = "cg_lock" -> "cg_lookup"
                  [] cpc[t] = "cs_lock" -> "cs_evict"
                  [] OTHER -> "am_add",
             cloc[t])
    /\ UNCHANGED <<cache, access_times, metrics, now, engine_vars>>

\* get, lines 18-21 and 26: the value of a fresh entry, None for no entry
cg_lookup(t) ==
    /\ cpc[t] = "cg_lookup"
    /\ IF ~Has(cache, cloc[t].key)
       THEN CReturn(t, cloc[t])
       ELSE LET l == [cloc[t] EXCEPT !.hit = TRUE,
                                     !.age = now - Get(access_times, cloc[t].key)]
            IN  IF Fresh(Get(access_times, cloc[t].key), now)
                THEN CReturn(t, [l EXCEPT !.res = Get(cache, cloc[t].key),
                                          !.served = TRUE])
                ELSE CGoto(t, "cg_expire", l) /\ UNCHANGED lock
    /\ UNCHANGED <<cache, access_times, metrics, centry, now, engine_vars>>

\* get, lines 24-26: the expired entry is removed, None is returned
cg_expire(t) ==
    /\ cpc[t] = "cg_expire"
    /\ cache' = Del(cache, cloc[t].key)
    /\ access_times' = Del(access_times, cloc[t].key)
    /\ CReturn(t, cloc[t])
    /\ UNCHANGED <<metrics, centry, now, engine_vars>>

\* set, lines 31-34
cs_evict(t) ==
    /\ cpc[t] = "cs_evict"
    /\ IF Full(cache, cloc[t].key)
       THEN LET oldest_key == OldestKey(access_times) IN
            /\ cache' = Del(cache, oldest_key)
            /\ access_times' = Del(access_times, oldest_key)
            /\ CGoto(t, "cs_insert", [cloc[t] EXCEPT !.oldest = oldest_key])
       ELSE /\ CGoto(t, "cs_insert", cloc[t])
            /\ UNCHANGED <<cache, access_times>>
    /\ UNCHANGED <<lock, metrics, centry, now, engine_vars>>

\* set, lines 36-37
cs_insert(t) ==
    /\ cpc[t] = "cs_insert"
    /\ cache' = Put(cache, cloc[t].key, cloc[t].val)
    /\ access_times' = Put(access_times, cloc[t].key, now)
    /\ CReturn(t, cloc[t])
    /\ UNCHANGED <<metrics, centry, now, engine_vars>>

\* the caller has the value
cache_ret(t) ==
    /\ cpc[t] = "ret"
    /\ CGoto(t, "idle", NoCLoc)
    /\ centry' = IF centry.of = t THEN NoCEntry ELSE centry
    /\ UNCHANGED <<cache, access_times, lock, metrics, now, engine_vars>>

\* time passes
CacheTick ==
    /\ now + CacheStep <= MaxCacheTime
    /\ now' = now + CacheStep
    /\ UNCHANGED <<engine_vars, cache_vars, tracker_vars, pure_vars, app_vars,
                 capture_vars>>

CacheStepOf(t) ==
    \/ acquire(t)
    \/ cg_lookup(t) \/ cg_expire(t)
    \/ cs_evict(t) \/ cs_insert(t)
    \/ cache_ret(t)

\* two threads call get and set
CacheNext ==
    \/ CacheTick
    \/ \E t \in Callers, key \in CacheKeys : cache_get(t, key)
    \/ \E t \in Callers, key \in CacheKeys, value \in CacheValues :
          cache_set(t, key, value)
    \/ \E t \in Callers : CacheStepOf(t)

CacheSpec == Init /\ [][CacheNext]_vars

(***************************************************************************)
(* MLDetectionEngine.detect_ddos (ml_detection.py:82-109) under            *)
(* @performance_monitor and @cache_result(ttl=10)                          *)
(* (performance_cache.py:56-105).  Confidences are in units of 0.00001.    *)
(***************************************************************************)
FlowFeatures == {[packets_per_second |-> 300], [packets_per_second |-> 5]}

\* what the model answers: predict and max(predict_proba), or an exception
ModelOutputs ==
    {[failed |-> FALSE, pred |-> 1, proba |-> 85004],
     [failed |-> FALSE, pred |-> 0, proba |-> 60000],
     [failed |-> TRUE, pred |-> 0, proba |-> 0]}

\* cache_result, line 62: the function's name and the hash of its arguments
CacheKeyOf(flow_features) ==
    CASE flow_features.packets_per_second = 300 -> "detect_ddos:h300"
      [] OTHER -> "detect_ddos:h5"

\* round(confidence, 4)
Round4(c) == ((c + 5) \div 10) * 10

\* mutant: a confidence of exactly 0.85 is HIGH, one of exactly 0.6 MEDIUM
ThreatLevelAtThreshold(confidence) ==
    IF confidence >= 85000 THEN "HIGH"
    ELSE IF confidence >= 60000 THEN "MEDIUM" ELSE "LOW"

\* detect_ddos, line 93
ThreatLevel(confidence) ==
    IF confidence > 85000 THEN "HIGH"
    ELSE IF confidence > 60000 THEN "MEDIUM" ELSE "LOW"

\* detect_ddos, lines 85-109: the verdict, produced at time t
Verdict(out, t) ==
    IF out.failed
    THEN [prediction |-> "unknown", confidence |-> 0, threat_level |-> "UNKNOWN",
          error |-> "exception"]
    ELSE [prediction |-> IF out.pred = 1 THEN "ddos" ELSE "normal",
          confidence |-> Round4(out.proba),
          threat_level |-> ThreatLevel(out.proba),
          timestamp |-> t, model_version |-> "3.0.0"]

\* the call: performance_monitor takes start_time (line 88), cache_result
\* builds the key (line 62) and calls performance_cache.get (line 65)
detect_ddos(t, flow_features) ==
    /\ t \in Callers /\ cpc[t] = "idle"
    /\ detects < MaxDetects
    /\ CGoto(t, "cg_lock", [NoCLoc EXCEPT !.op = "detect_ddos",
                                          !.key = CacheKeyOf(flow_features),
                                          !.start = now])
    /\ UNCHANGED <<cache, access_times, lock, metrics, centry, now, engine_vars>>

\* cache_result, line 70: start_time of the decorated function
dd_start(t) ==
    /\ cpc[t] = "dd_start"
    /\ CGoto(t, "dd_call", [cloc[t] EXCEPT !.start1 = now])
    /\ UNCHANGED <<cache, access_times, lock, metrics, centry, now, engine_vars>>

\* cache_result, lines 71-75: the decorated function runs, its duration is
\* taken, and performance_cache.set is called with its result
dd_call(t) ==
    /\ cpc[t] = "dd_call"
    /\ \E out \in ModelOutputs :
          CGoto(t, "cs_lock", [cloc[t] EXCEPT !.val = Verdict(out, now),
                                             !.res = Verdict(out, now),
                                             !.invoked = TRUE,
                                             !.duration = Duration(cloc[t].start1, now),
                                             !.todo = 2])
    /\ UNCHANGED <<cache, access_times, lock, metrics, centry, now, engine_vars>>

\* add_metric, lines 41-44
Recorded(d, at, duration) ==
    LET q == Append(d, <<at, duration>>)
    IN  IF Len(q) > max_metrics THEN Tail(q) ELSE q

\* add_metric(func.__name__, duration) under the lock: first the one of
\* cache_result (line 78), then, the wrapper of cache_result having returned,
\* the one of performance_monitor (lines 91-92), which returns the result
\* (line 100)
am_add(t) ==
    /\ cpc[t] = "am_add"
    /\ metrics' = Put(metrics, "detect_ddos",
                      Recorded(IF Has(metrics, "detect_ddos")
                               THEN Get(metrics, "detect_ddos") ELSE <<>>,
                               now, cloc[t].duration))
    /\ lock' = "none"
    /\ IF cloc[t].todo = 2
       THEN CGoto(t, "am_lock", [cloc[t] EXCEPT !.todo = 1,
                                               !.duration = Duration(cloc[t].start, now)])
       ELSE CGoto(t, "ret", [cloc[t] EXCEPT !.todo = 0])
    /\ UNCHANGED <<cache, access_times, centry, now, engine_vars>>

DetectStepOf(t) ==
    \/ acquire(t)
    \/ cg_lookup(t) \/ cg_expire(t)
    \/ dd_start(t) \/ dd_call(t)
    \/ cs_evict(t) \/ cs_insert(t)
    \/ am_add(t)
    \/ cache_ret(t)

\* the threads call detect_ddos, one call at a time
DetectNext ==
    \/ CacheTick
    \/ \E t \in Callers, f \in FlowFeatures : CQuiet /\ detect_ddos(t, f)
    \/ \E t \in Callers : DetectStepOf(t)

DetectSpec == Init /\ [][DetectNext]_vars

(***************************************************************************)
(* RateTracker (app.py:154-167).  add is called by the capture thread with *)
(* ts = time.time() (line 259) and by simulate_packet with the timestamp   *)
(* of the request, when it has one (lines 361-365); the calls are taken    *)
(* one at a time.  Time is in seconds.                                     *)
(***************************************************************************)
RateTimes == 0..MaxRateTime

\* self.timestamps[src_ip] of the defaultdict(deque): a missing key is
\* inserted with an empty deque
Touched(d, src_ip) == IF Has(d, src_ip) THEN d ELSE Put(d, src_ip, <<>>)

\* add, lines 162-163: popleft while the front is older than the window
Purged(q, ts) ==
    LET stale(i) == ts - q[i] > window
        first == IF \E i \in DOMAIN q : \A j \in 1..i : stale(j)
                 THEN 1 + CHOOSE i \in DOMAIN q :
                              /\ \A j \in 1..i : stale(j)
                              /\ (i = Len(q) \/ ~stale(i + 1))
                 ELSE 1
    IN  SubSeq(q, first, Len(q))

\* pps, line 167; window is 1, so that the quotient is exact
Rate(q) == IF q # <<>> THEN Len(q) \div window ELSE 0

\* add(src_ip, ts), lines 159-163
RateTracker_add(src_ip, ts) ==
    /\ Len(recorded[src_ip]) < MaxEvents
    /\ LET d == Touched(timestamps, src_ip)
           q == Append(Get(d, src_ip), ts)
       IN  timestamps' = Put(d, src_ip, Purged(q, ts))
    /\ rt_last' = [op |-> "add", src_ip |-> src_ip, ts |-> ts, res |-> 0]
    /\ recorded' = [recorded EXCEPT ![src_ip] = Append(@, ts)]
    /\ UNCHANGED <<now, engine_vars, cache_vars, pure_vars, app_vars,
                 capture_vars>>

\* pps(src_ip), lines 165-167
RateTracker_pps(src_ip) ==
    /\ timestamps' = Touched(timestamps, src_ip)
    /\ rt_last' = [op |-> "pps", src_ip |-> src_ip, ts |-> now,
                   res |-> Rate(Get(Touched(timestamps, src_ip), src_ip))]
    /\ UNCHANGED <<recorded, now, engine_vars, cache_vars, pure_vars, app_vars,
                 capture_vars>>

\* time passes
TrackerTick ==
    /\ now < MaxRateTime
    /\ now' = now + 1
    /\ UNCHANGED <<engine_vars, cache_vars, tracker_vars, pure_vars, app_vars,
                 capture_vars>>

TrackerNext ==
    \/ TrackerTick
    \/ \E a \in RateSources, ts \in RateTimes : RateTracker_add(a, ts)
    \/ \E a \in RateSources : RateTracker_pps(a)

TrackerSpec == Init /\ [][TrackerNext]_vars

(***************************************************************************)
(* The functions of the packet pipeline: get_network_slice                 *)
(* (network_slicing.py:36-101), build_features and is_ddos_attack          *)
(* (app.py:174-206).  Rates, probabilities and feature values are floats   *)
(* in the code; here they are integers in units of 1 / Scale.              *)
(***************************************************************************)
Scale == 10000

PacketSizes == {50, 199, 200, 1400}

Protocols == {"TCP", "UDP", "ICMP", "icmp"}

PpsValues == {0, 20 * Scale - 1, 20 * Scale, 50 * Scale, 50 * Scale + 1,
              200 * Scale, 200 * Scale + 1, 300 * Scale}

\* the model loaded at start-up: its feature count, and what predict and
\* predict_proba answer (or that they raise)
Models ==
    {NoModel} \cup
    [loaded : {TRUE}, n_features_in_ : 1..MaxFeatures, pred : {0, 1},
     prob : {7 * (Scale \div 10), 7 * (Scale \div 10) + 1}, fails : BOOLEAN]

\* packets of the capture thread: not simulated, no source declared
\* malicious (FORCE_MALICIOUS_IPS = set(), app.py:58)
CapturedInputs ==
    [packet_size : PacketSizes, protocol : Protocols, pps : PpsValues,
     model : Models, src_ip : {"10.0.0.5"}, simulated : {FALSE},
     FORCE_MALICIOUS_IPS : {{}}, out : {NoInput.out}]

\* packets of simulate_packet (simulated = True, app.py:341), and packets of
\* a source that the operator has put into FORCE_MALICIOUS_IPS
ForcedInputs ==
    [packet_size : PacketSizes, protocol : {"TCP"}, pps : PpsValues,
     model : Models, src_ip : {"10.0.0.5"}, simulated : BOOLEAN,
     FORCE_MALICIOUS_IPS : {{}, {"10.0.0.5"}, {"10.0.0.9"}},
     out : {NoInput.out}]

\* what the model of MLDetectionEngine answers in detect_ddos
\* (ml_detection.py:89-91): predict and max(predict_proba), in units of
\* 0.00001 as in ModelOutputs, or an exception
VerdictOutputs ==
    {[failed |-> TRUE, pred |-> 0, proba |-> 0]} \cup
    [failed : {FALSE}, pred : {0, 1},
     proba : {50000, 60000, 60001, 60004, 85000, 85001, 85004, 100000}]

VerdictInputs == {[NoInput EXCEPT !.out = o] : o \in VerdictOutputs}

PureInputs == CapturedInputs \cup ForcedInputs \cup VerdictInputs

SLICE_DEFINITIONS ==
    [eMBB  |-> [priority |-> 2, bandwidth_weight |-> 50 * (Scale \div 100)],
     URLLC |-> [priority |-> 1, bandwidth_weight |-> 30 * (Scale \div 100)],
     mMTC  |-> [priority |-> 3, bandwidth_weight |-> 20 * (Scale \div 100)]]

\* mutant: the mMTC test first
classify_slice_mmtc_first(packet_size, protocol, pps) ==
    IF packet_size < 200 /\ pps < 20 * Scale THEN "mMTC"
    ELSE IF pps > 200 * Scale \/ protocol = "ICMP" THEN "URLLC"
    ELSE "eMBB"

\* network_slicing.py:36-54
classify_slice(packet_size, protocol, pps) ==
    IF pps > 200 * Scale \/ protocol = "ICMP" THEN "URLLC"
    ELSE IF packet_size < 200 /\ pps < 20 * Scale THEN "mMTC"
    ELSE "eMBB"

\* network_slicing.py:61-75 (without the description texts and the time)
apply_slice_policy(slice_name) ==
    LET slice_info == IF slice_name \in DOMAIN SLICE_DEFINITIONS
                      THEN SLICE_DEFINITIONS[slice_name]
                      ELSE SLICE_DEFINITIONS["eMBB"]
    IN  [slice |-> slice_name,
         priority |-> slice_info.priority,
         bandwidth_weight |-> slice_info.bandwidth_weight]

\* network_slicing.py:82-101
get_network_slice(packet_size, protocol, pps) ==
    apply_slice_policy(classify_slice(packet_size, protocol, pps))

\* app.py:174
EXPECTED_FEATURES(model) == IF model.loaded THEN model.n_features_in_ ELSE 0

\* app.py:177-187
BaseFeatures(pkt_size, pps) ==
    <<1 * Scale, pps, pkt_size * (Scale \div 100), 5 * (Scale \div 10),
      3 * (Scale \div 10), 10 * Scale, 1 * Scale, 1 * Scale, 1 * Scale>>

\* mutant: the zeros in front
build_features_padded_in_front(pkt_size, pps, model) ==
    LET base == BaseFeatures(pkt_size, pps)
        K == EXPECTED_FEATURES(model)
    IN  IF Len(base) > K THEN SubSeq(base, 1, K)
        ELSE IF Len(base) < K THEN [i \in 1..(K - Len(base)) |-> 0] \o base
        ELSE base

\* app.py:176-192
build_features(pkt_size, pps, model) ==
    LET base == BaseFeatures(pkt_size, pps)
        K == EXPECTED_FEATURES(model)
    IN  IF Len(base) > K THEN SubSeq(base, 1, K)
        ELSE IF Len(base) < K THEN base \o [i \in 1..(K - Len(base)) |-> 0]
        ELSE base

\* mutant: 50 packets per second are an attack already
is_ddos_attack_at_threshold(pkt_size, pps, model) ==
    IF model.loaded
    THEN IF model.fails THEN FALSE
         ELSE model.pred = 1 /\ model.prob > 7 * (Scale \div 10)
    ELSE pps >= 50 * Scale

\* app.py:194-206
is_ddos_attack(pkt_size, pps, model) ==
    IF model.loaded
    THEN IF model.fails THEN FALSE
         ELSE model.pred = 1 /\ model.prob > 7 * (Scale \div 10)
    ELSE pps > 50 * Scale

\* app.py:196-199: what is_ddos_attack invokes on its way
CallsOf_is_ddos_attack(pkt_size, pps, model) ==
    IF model.loaded THEN {"build_features", "model.predict"} ELSE {}

\* mutant: the forced verdict is given after the detector has run
is_ddos_attack_for_ip_late(src_ip, pkt_size, pps, simulated, forced, model) ==
    [res |-> \/ is_ddos_attack(pkt_size, pps, model)
             \/ simulated
             \/ src_ip \in forced,
     calls |-> CallsOf_is_ddos_attack(pkt_size, pps, model)]

\* app.py:208-221; forced is FORCE_MALICIOUS_IPS
is_ddos_attack_for_ip(src_ip, pkt_size, pps, simulated, forced, model) ==
    IF simulated THEN [res |-> TRUE, calls |-> {}]
    ELSE IF src_ip \in forced THEN [res |-> TRUE, calls |-> {}]
    ELSE [res |-> is_ddos_attack(pkt_size, pps, model),
          calls |-> CallsOf_is_ddos_attack(pkt_size, pps, model)]

\* what a call of these functions leaves alone
beside_call ==
    <<fn_in, now, engine_vars, cache_vars, tracker_vars, app_vars,
      capture_vars>>

Apply_get_network_slice ==
    /\ fn_out' = [fn |-> "get_network_slice",
                  res |-> get_network_slice(fn_in.packet_size,
                                            fn_in.protocol, fn_in.pps),
                  calls |-> {}]
    /\ UNCHANGED beside_call

Apply_build_features ==
    /\ fn_out' = [fn |-> "build_features",
                  res |-> build_features(fn_in.packet_size, fn_in.pps,
                                         fn_in.model),
                  calls |-> {}]
    /\ UNCHANGED beside_call

Apply_is_ddos_attack ==
    /\ fn_out' = [fn |-> "is_ddos_attack",
                  res |-> is_ddos_attack(fn_in.packet_size, fn_in.pps,
                                         fn_in.model),
                  calls |-> CallsOf_is_ddos_attack(fn_in.packet_size,
                                                   fn_in.pps, fn_in.model)]
    /\ UNCHANGED beside_call

Apply_is_ddos_attack_for_ip ==
    /\ LET r == is_ddos_attack_for_ip(fn_in.src_ip, fn_in.packet_size,
                                      fn_in.pps, fn_in.simulated,
                                      fn_in.FORCE_MALICIOUS_IPS, fn_in.model)
       IN  fn_out' = [fn |-> "is_ddos_attack_for_ip", res |-> r.res,
                      calls |-> r.calls]
    /\ UNCHANGED beside_call

\* the body of detect_ddos (ml_detection.py:85-109) on the model's answer
Apply_detect_ddos ==
    /\ fn_out' = [fn |-> "detect_ddos", res |-> Verdict(fn_in.out, now),
                  calls |-> {}]
    /\ UNCHANGED beside_call

PureInit ==
    /\ EngineInit /\ CacheInit /\ TrackerInit /\ AppInit /\ CaptureInit
    /\ fn_in \in PureInputs
    /\ fn_out = NoOutput

PureNext ==
    \/ Apply_get_network_slice
    \/ Apply_build_features
    \/ Apply_is_ddos_attack
    \/ Apply_is_ddos_attack_for_ip
    \/ Apply_detect_ddos

PureSpec == PureInit /\ [][PureNext]_vars

(***************************************************************************)
(* block_ip and unblock_ip of the app (app.py:87-149) and of SDNController *)
(* (sdn_controller.py:49-77).  Each makes one requests.post to the Ryu     *)
(* controller with a timeout; the answer is a status code, or the post     *)
(* raises (timeout, connection refused).                                   *)
(***************************************************************************)
AppIPs == {"10.0.0.5", "10.0.0.9"}

StatusCodes == {200, 201, 204, 304, 400, 404, 500}

Responses ==
    {[raised |-> TRUE, status_code |-> 0]} \cup
    [raised : {FALSE}, status_code : StatusCodes]

\* requests.Response.ok: raise_for_status raises for 400..599 only
Response_ok(r) == ~(400 <= r.status_code /\ r.status_code < 600)

\* app.py:112-118 and 141-147: the post did not raise and `r.ok`
Accepted(r) == ~r.raised /\ Response_ok(r)

\* sdn_controller.py:53-62 and 68-77: the post did not raise and
\* `r.status_code in (200, 201)`
Acknowledged(r) == ~r.raised /\ r.status_code \in {200, 201}

\* block_ip(ip) of the app, lines 87-119
app_block_ip(ip, r) ==
    /\ BLOCKED_IPS' = IF ip \notin BLOCKED_IPS /\ Accepted(r)
                      THEN BLOCKED_IPS \cup {ip} ELSE BLOCKED_IPS
    /\ app_last' = IF ip \in BLOCKED_IPS
                   THEN [op |-> "block_ip", ip |-> ip, requested |-> FALSE,
                         r |-> NoResponse, res |-> TRUE,
                         before |-> BLOCKED_IPS]
                   ELSE [op |-> "block_ip", ip |-> ip, requested |-> TRUE,
                         r |-> r, res |-> Accepted(r), before |-> BLOCKED_IPS]
    /\ UNCHANGED <<now, engine_vars, cache_vars, tracker_vars, pure_vars,
                   capture_vars>>

\* unblock_ip(ip) of the app, lines 122-149
app_unblock_ip(ip, r) ==
    /\ BLOCKED_IPS' = IF ip \in BLOCKED_IPS /\ Accepted(r)
                      THEN BLOCKED_IPS \ {ip} ELSE BLOCKED_IPS
    /\ app_last' = IF ip \notin BLOCKED_IPS
                   THEN [op |-> "unblock_ip", ip |-> ip, requested |-> FALSE,
                         r |-> NoResponse, res |-> TRUE,
                         before |-> BLOCKED_IPS]
                   ELSE [op |-> "unblock_ip", ip |-> ip, requested |-> TRUE,
                         r |-> r, res |-> Accepted(r), before |-> BLOCKED_IPS]
    /\ UNCHANGED <<now, engine_vars, cache_vars, tracker_vars, pure_vars,
                   capture_vars>>

\* SDNController.block_ip(ip), sdn_controller.py:49-62
SDNController_block_ip(ip, r) ==
    /\ app_last' = [op |-> "SDNController.block_ip", ip |-> ip,
                    requested |-> TRUE, r |-> r, res |-> Acknowledged(r),
                    before |-> BLOCKED_IPS]
    /\ UNCHANGED <<BLOCKED_IPS, now, engine_vars, cache_vars, tracker_vars,
                   pure_vars, capture_vars>>

\* SDNController.unblock_ip(ip), sdn_controller.py:64-77
SDNController_unblock_ip(ip, r) ==
    /\ app_last' = [op |-> "SDNController.unblock_ip", ip |-> ip,
                    requested |-> TRUE, r |-> r, res |-> Acknowledged(r),
                    before |-> BLOCKED_IPS]
    /\ UNCHANGED <<BLOCKED_IPS, now, engine_vars, cache_vars, tracker_vars,
                   pure_vars, capture_vars>>

AppNext ==
    \E ip \in AppIPs, r \in Responses :
        \/ app_block_ip(ip, r)
        \/ app_unblock_ip(ip, r)
        \/ SDNController_block_ip(ip, r)
        \/ SDNController_unblock_ip(ip, r)

AppSpec == Init /\ [][AppNext]_vars

(***************************************************************************)
(* Packet capture (app.py:242-320, 438-454).  Flask serves every request   *)
(* in a thread of its own (app.run, line 492), so start_capture and        *)
(* stop_capture run beside each other and beside the capture threads; a    *)
(* step is one access to `running` or to the list of threads.  sniff calls *)
(* prn and then stop_filter for every packet it receives, and does nothing *)
(* between two packets.                                                    *)
(***************************************************************************)
\* the capture threads started in a run
MaxCaptures == 2

\* capture[i] is the i-th thread started
CaptureThreads == 1..MaxCaptures

\* the thread was started and is at position p of capture_loop
At(i, p) == i \in DOMAIN capture /\ capture[i] = p

\* Thread.is_alive()
Alive(i) == i \in DOMAIN capture /\ capture[i] # "exited"

\* inside sniff (lines 309-315)
Capturing(i) == At(i, "sniff") \/ At(i, "stop_filter")

\* start requests that have passed line 441 and not yet started a thread
Starting == {t \in Callers : req[t] # "idle"}

\* the packets of the interface: with or without an IP layer
CapturedPackets ==
    [IP : BOOLEAN, src : {"10.0.0.5"}, len : {1400}]

\* the model loaded at start-up (app.py:74-82) and what it answers to the
\* features of a packet
CaptureModels ==
    {NoModel} \cup
    [loaded : {TRUE}, n_features_in_ : {9}, pred : {0, 1},
     prob : {7 * (Scale \div 10) + 1}, fails : {FALSE}]

\* what the capture threads and their requests leave alone but the tracker
\* and the set of blocked sources
beside_capture ==
    <<now, engine_vars, cache_vars, tracker_vars, pure_vars, app_vars>>

\* start_capture, lines 441-442: `if running: return`
start_capture_test(t) ==
    /\ req[t] = "idle"
    /\ Len(capture) + Cardinality(Starting) < MaxCaptures
    /\ req' = IF running THEN req ELSE [req EXCEPT ![t] = "set"]
    /\ UNCHANGED <<running, capture, stop_seen, last_live_ts, beside_capture>>

\* start_capture, line 443: running = True
start_capture_set(t) ==
    /\ req[t] = "set"
    /\ running' = TRUE
    /\ stop_seen' = FALSE
    /\ req' = [req EXCEPT ![t] = "start"]
    /\ UNCHANGED <<capture, last_live_ts, beside_capture>>

\* start_capture, lines 444-446: Thread(target=capture_loop).start()
start_capture_thread(t) ==
    /\ req[t] = "start"
    /\ capture' = Append(capture, "sniff")
    /\ req' = [req EXCEPT ![t] = "idle"]
    /\ UNCHANGED <<running, stop_seen, last_live_ts, beside_capture>>

\* stop_capture, lines 449-454
stop_capture(t) ==
    /\ req[t] = "idle"
    /\ running' = FALSE
    /\ stop_seen' = TRUE
    /\ UNCHANGED <<capture, req, last_live_ts, beside_capture>>

\* throttled_live_post, lines 229-237: posted is whether the post to the
\* Node backend returned
Throttled(posted) ==
    IF 10 * (now - last_live_ts) >= LIVE_POST_INTERVAL /\ posted
    THEN now ELSE last_live_ts

\* packet_handler(pkt) of capture thread i, lines 246-306: m is the model,
\* r what Ryu answers when block_ip asks it, posted whether the live post
\* returned.  The post of a blocked attacker to the Node backend (lines
\* 290-306) changes nothing here.
packet_handler(i, pkt, m, r, posted) ==
    /\ At(i, "sniff")
    /\ last_live_ts' = IF running /\ pkt.IP THEN Throttled(posted)
                       ELSE last_live_ts
    /\ IF running /\ pkt.IP
       THEN LET src_ip == pkt.src
                d == Touched(timestamps, src_ip)
                q == Purged(Append(Get(d, src_ip), now), now)
                pps == Rate(q) * Scale
                attack == is_ddos_attack_for_ip(src_ip, pkt.len, pps, FALSE,
                                                {}, m).res
            IN  /\ Len(recorded[src_ip]) < MaxEvents
                /\ timestamps' = Put(d, src_ip, q)
                /\ recorded' = [recorded EXCEPT ![src_ip] = Append(@, now)]
                /\ rt_last' = [op |-> "pps", src_ip |-> src_ip, ts |-> now,
                               res |-> Rate(q)]
                /\ IF attack
                   THEN /\ BLOCKED_IPS' =
                               IF src_ip \notin BLOCKED_IPS /\ Accepted(r)
                               THEN BLOCKED_IPS \cup {src_ip}
                               ELSE BLOCKED_IPS
                        /\ app_last' =
                               IF src_ip \in BLOCKED_IPS
                               THEN [op |-> "block_ip", ip |-> src_ip,
                                     requested |-> FALSE, r |-> NoResponse,
                                     res |-> TRUE, before |-> BLOCKED_IPS]
                               ELSE [op |-> "block_ip", ip |-> src_ip,
                                     requested |-> TRUE, r |-> r,
                                     res |-> Accepted(r),
                                     before |-> BLOCKED_IPS]
                   ELSE UNCHANGED app_vars
       ELSE UNCHANGED <<tracker_vars, app_vars>>
    /\ capture' = [capture EXCEPT ![i] = "stop_filter"]
    /\ UNCHANGED <<running, req, stop_seen, now, engine_vars, cache_vars,
                   pure_vars>>

\* stop_filter of sniff, line 314: `not running`
stop_filter(i) ==
    /\ At(i, "stop_filter")
    /\ capture' = [capture EXCEPT ![i] = IF ~running THEN "finally"
                                         ELSE "sniff"]
    /\ UNCHANGED <<running, req, stop_seen, last_live_ts, beside_capture>>

\* sniff raises (no such interface, no permission, the socket fails):
\* lines 316-317
sniff_raises(i) ==
    /\ At(i, "sniff")
    /\ capture' = [capture EXCEPT ![i] = "finally"]
    /\ UNCHANGED <<running, req, stop_seen, last_live_ts, beside_capture>>

\* capture_loop, lines 318-320: `finally: running = False`, and the thread
\* ends
capture_loop_finally(i) ==
    /\ At(i, "finally")
    /\ running' = FALSE
    /\ capture' = [capture EXCEPT ![i] = "exited"]
    /\ UNCHANGED <<req, stop_seen, last_live_ts, beside_capture>>

\* time passes
CaptureTick ==
    /\ now < MaxRateTime
    /\ now' = now + 1
    /\ UNCHANGED <<engine_vars, cache_vars, tracker_vars, pure_vars, app_vars,
                   capture_vars>>

CaptureNext ==
    \/ CaptureTick
    \/ \E t \in Callers :
           \/ start_capture_test(t)
           \/ start_capture_set(t)
           \/ start_capture_thread(t)
           \/ stop_capture(t)
    \/ \E i \in CaptureThreads :
           \/ \E pkt \in CapturedPackets, m \in CaptureModels,
                 r \in Responses, posted \in BOOLEAN :
                     packet_handler(i, pkt, m, r, posted)
           \/ stop_filter(i)
           \/ sniff_raises(i)
           \/ capture_loop_finally(i)

CaptureSpec == Init /\ [][CaptureNext]_vars

(***************************************************************************)
(* Properties.  Returned(t, o) is the state in which handler o of thread t *)
(* has its result and, having run alone, still has the state at its entry. *)
(***************************************************************************)
Returned(t, o) == pc[t] = "ret" /\ op[t] = o /\ entry.of = t

Actions(h, ip, a) == {i \in DOMAIN h : h[i].ip = ip /\ h[i].action = a}

\* C1: an execute_mitigation call for a source that has a BlockRecord makes no
\* control-plane block call, appends nothing to the history, returns
\* already_blocked and raises packets_blocked by exactly 1; the call that
\* blocks a source makes one block call, appends one BLOCKED entry and leaves
\* the counter at 0, so that the next evaluation reports packets_blocked = 1.
C1_RepeatIsCounted ==
    \A t \in Callers :
        Returned(t, "execute_mitigation") =>
            /\ Has(entry.reg, loc[t].ip) =>
                  /\ loc[t].res.status = "already_blocked"
                  /\ block_calls = entry.calls
                  /\ mitigation_history = entry.hist
                  /\ Has(blocked_ips, loc[t].ip)
                  /\ loc[t].res.packets_blocked =
                        Get(entry.reg, loc[t].ip).packets_blocked + 1
                  /\ Get(blocked_ips, loc[t].ip).packets_blocked =
                        Get(entry.reg, loc[t].ip).packets_blocked + 1
            /\ loc[t].res.status = "blocked" =>
                  /\ block_calls = entry.calls + 1
                  /\ Len(mitigation_history) = Len(entry.hist) + 1
                  /\ SubSeq(mitigation_history, 1, Len(entry.hist)) = entry.hist
                  /\ mitigation_history[Len(mitigation_history)].action = "BLOCKED"
                  /\ mitigation_history[Len(mitigation_history)].ip = loc[t].ip
                  /\ Has(blocked_ips, loc[t].ip)
                  /\ Get(blocked_ips, loc[t].ip).packets_blocked = 0

\* the second of two evaluations: one block call and one BLOCKED entry in
\* all, and already_blocked with packets_blocked = 1
C1_Witness ==
    \E t \in Callers :
        /\ Returned(t, "execute_mitigation")
        /\ loc[t].res.status = "already_blocked"
        /\ loc[t].res.packets_blocked = 1
        /\ block_calls = 1
        /\ Cardinality(Actions(mitigation_history, loc[t].ip, "BLOCKED")) = 1
        /\ Len(mitigation_history) = 1

\* C2: when the control-plane block call made for an unseen source fails,
\* execute_mitigation returns block_failed; and a block_failed result leaves
\* the source without BlockRecord, the registry and the history as they were.
C2_FailedBlockLeavesNoTrace ==
    \A t \in Callers :
        Returned(t, "execute_mitigation") =>
            /\ (block_calls = entry.calls + 1 /\ ~loc[t].success) =>
                  loc[t].res.status = "block_failed"
            /\ loc[t].res.status = "block_failed" =>
                  /\ ~Has(entry.reg, loc[t].ip)
                  /\ ~Has(blocked_ips, loc[t].ip)
                  /\ blocked_ips = entry.reg
                  /\ mitigation_history = entry.hist

C2_Witness ==
    \E t \in Callers :
        /\ Returned(t, "execute_mitigation")
        /\ loc[t].ip \in ValidIPs
        /\ block_calls = entry.calls + 1
        /\ loc[t].res.status = "block_failed"

\* C3: the sweep that read the clock at t has removed, when it ends, exactly
\* the records whose age t - T exceeded block_duration and whose control-plane
\* unblock succeeded; a record with t <= T + block_duration is still there.
C3_SweepRemovesExactlyExpired ==
    Returned(Sweeper, "sweep") =>
        \A ip \in Keys(entry.reg) :
            ~Has(blocked_ips, ip) <=>
                /\ loc[Sweeper].t0 - Get(entry.reg, ip).timestamp > block_duration
                /\ ip \in loc[Sweeper].ok

C3_Witness ==
    /\ Returned(Sweeper, "sweep")
    /\ \E ip \in Keys(entry.reg) :
          /\ ~Has(blocked_ips, ip)
          /\ loc[Sweeper].t0 - Get(entry.reg, ip).timestamp > block_duration

\* C4 (as claimed): a sweep that removed a record has appended an EXPIRED
\* entry for its source to the history.
C4_ExpiryIsLogged ==
    Returned(Sweeper, "sweep") =>
        \A ip \in Keys(entry.reg) \ Keys(blocked_ips) :
            Cardinality(Actions(mitigation_history, ip, "EXPIRED")) >
                Cardinality(Actions(entry.hist, ip, "EXPIRED"))

\* C5 (as claimed): a successful unblock_ip of a caller has deleted the
\* record and appended an UNBLOCKED entry for the source to the history.
C5_UnblockIsLogged ==
    \A t \in Callers :
        (Returned(t, "unblock_ip") /\ loc[t].res.status = "True") =>
            /\ ~Has(blocked_ips, loc[t].ip)
            /\ mitigation_history # <<>>
            /\ mitigation_history[Len(mitigation_history)].action = "UNBLOCKED"
            /\ mitigation_history[Len(mitigation_history)].ip = loc[t].ip

\* C6: every sweep attempts the control-plane unblock of every record that is
\* expired when it starts, and a record whose unblock failed is still in the
\* registry, unchanged, when the sweep ends; the clean-up thread goes on.
C6_FailedUnblockIsKept ==
    /\ pc[Sweeper] \notin {"raised", "dead"}
    /\ Returned(Sweeper, "sweep") =>
          \A ip \in Keys(entry.reg) :
              loc[Sweeper].t0 - Get(entry.reg, ip).timestamp > block_duration =>
                  /\ ip \in loc[Sweeper].tried
                  /\ ip \notin loc[Sweeper].ok =>
                        /\ Has(blocked_ips, ip)
                        /\ Get(blocked_ips, ip) = Get(entry.reg, ip)

\* a sweep whose unblock failed, on a record whose unblock had failed before
\* (the controller has dropped the rule, its answer was lost)
C6_Witness ==
    /\ Returned(Sweeper, "sweep")
    /\ \E ip \in loc[Sweeper].tried \ loc[Sweeper].ok :
          /\ Has(blocked_ips, ip)
          /\ ip \notin entry.sdn

\* C7: execute_mitigation and block_ip on the source 'unknown' or '0.0.0.0'
\* (a missing src_ip reads as 'unknown') return error, respectively False,
\* make no control-plane call and leave registry and history as they were.
C7_SentinelIsRefused ==
    \A t \in Callers :
        /\ (Returned(t, "execute_mitigation") /\ loc[t].ip \in Sentinels) =>
              /\ loc[t].res.status = "error"
              /\ block_calls = entry.calls
              /\ sdn_blocked = entry.sdn
              /\ blocked_ips = entry.reg
              /\ mitigation_history = entry.hist
        /\ (Returned(t, "block_ip") /\ loc[t].ip \in Sentinels) =>
              /\ loc[t].res.status = "False"
              /\ block_calls = entry.calls
              /\ sdn_blocked = entry.sdn
              /\ blocked_ips = entry.reg
              /\ mitigation_history = entry.hist

C7_Witness ==
    \E t \in Callers :
        /\ Returned(t, "execute_mitigation")
        /\ loc[t].ip = "0.0.0.0"
        /\ loc[t].res.status = "error"
        /\ blocked_ips # <<>>

\* C8 (as claimed): the registry update that execute_mitigation makes after
\* the control-plane call finds the transition still valid: it overwrites no
\* record that another execute_mitigation created, and the BLOCKED entry is
\* appended by the call whose record is in the registry.
C8_BlockIsRechecked ==
    [][\A t \in Callers :
          /\ (/\ pc[t] = "bl_store" /\ pc'[t] # "bl_store"
              /\ op[t] = "execute_mitigation" /\ loc[t].success
              /\ Has(blocked_ips, loc[t].ip))
                => Get(blocked_ips, loc[t].ip).reason # "DDoS detected"
          /\ (pc[t] = "em_append" /\ pc'[t] # "em_append")
                => /\ Has(blocked_ips, loc[t].ip)
                   /\ Get(blocked_ips, loc[t].ip).id = loc[t].obj
      ]_vars

\* C9 (as claimed): no handler fails on a record that another one deleted
\* after it had been seen present.
C9_NoMissingRecord ==
    \A t \in Threads : pc[t] = "raised" => loc[t].res.status # "KeyError"

\* C10 (as claimed): the history never holds more than max_history entries.
C10_HistoryIsBounded == Len(mitigation_history) <= max_history

\* C11 (as claimed): get_mitigation_history(K), for every K >= 0 and every
\* history, returns at most K entries, the K most recently appended ones in
\* the order of the history (all of them when there are fewer than K), and
\* leaves the history as it was.
C11_HistoryLimit ==
    \A t \in Callers :
        Returned(t, "get_mitigation_history") =>
            LET K == loc[t].limit
                h == entry.hist
                n == IF K < Len(h) THEN K ELSE Len(h)
            IN  /\ Len(loc[t].res.entries) <= K
                /\ loc[t].res.entries = SubSeq(h, Len(h) - n + 1, Len(h))
                /\ mitigation_history = h

\* the same statement for the limits K >= 1 only (it holds: K = 0 is the one
\* limit for which the slice [-K:] is the whole list)
C11_PositiveLimit ==
    \A t \in Callers :
        (Returned(t, "get_mitigation_history") /\ loc[t].limit >= 1) =>
            LET K == loc[t].limit
                h == entry.hist
                n == IF K < Len(h) THEN K ELSE Len(h)
            IN  /\ Len(loc[t].res.entries) <= K
                /\ loc[t].res.entries = SubSeq(h, Len(h) - n + 1, Len(h))
                /\ mitigation_history = h

(***************************************************************************)
(* Properties of the PerformanceCache.  CReturned(t, o) is the state in    *)
(* which method o of thread t has returned; centry is the store as it was  *)
(* when t took the lock.                                                   *)
(***************************************************************************)
CReturned(t, o) == cpc[t] = "ret" /\ cloc[t].op = o /\ centry.of = t

\* C12: a set of a new key into a store of max_size entries evicts exactly
\* one entry, one whose stored time is the least of the entries present (of
\* several such the one inserted first), and then inserts: max_size entries
\* remain, the others as they were.
C12_FullStoreEvictsOldest ==
    \A t \in Callers :
        (/\ CReturned(t, "set")
         /\ ~Has(centry.cache, cloc[t].key)
         /\ Len(centry.cache) = max_size) =>
            LET before == centry.access_times
                e == cloc[t].oldest
            IN  /\ e \in Keys(before)
                /\ \A k \in Keys(before) :
                      /\ Get(before, e) <= Get(before, k)
                      /\ Get(before, e) = Get(before, k) => Idx(before, e) <= Idx(before, k)
                /\ Keys(cache) = (Keys(before) \ {e}) \cup {cloc[t].key}
                /\ Len(cache) = max_size
                /\ Get(cache, cloc[t].key) = cloc[t].val
                /\ \A k \in Keys(before) \ {e} :
                      /\ Get(cache, k) = Get(centry.cache, k)
                      /\ Get(access_times, k) = Get(before, k)

\* max_size + 1 distinct keys went into the empty store at different times:
\* the key inserted first is the one missing
C12_Witness ==
    \E t \in Callers :
        /\ CReturned(t, "set")
        /\ Len(centry.cache) = max_size
        /\ ~Has(centry.cache, cloc[t].key)
        /\ cloc[t].oldest = centry.access_times[1].key
        /\ \A i \in 2..Len(centry.access_times) :
              centry.access_times[1].val < centry.access_times[i].val
        /\ ~Has(cache, cloc[t].oldest)
        /\ Len(cache) = max_size

\* C13: under every interleaving of get and set calls the store never holds
\* more than max_size entries, and a key enters the store only by the step of
\* a set of that very key: no step of a get, or of a set of another key, brings
\* an evicted entry back.
C13_BoundedUnderInterleaving ==
    /\ [](Len(cache) <= max_size)
    /\ [][\A k \in Keys(cache') \ Keys(cache) :
             \E t \in Callers :
                 /\ cpc[t] = "cs_insert" /\ cpc'[t] = "ret"
                 /\ cloc[t].key = k]_vars

\* a set has evicted an entry and holds the lock while the other thread
\* waits to get the evicted key
C13_Witness ==
    \E t, u \in Callers :
        /\ t # u
        /\ cpc[t] = "cs_insert" /\ cloc[t].oldest # "" /\ lock = t
        /\ cloc[t].key # cloc[t].oldest
        /\ cpc[u] = "cg_lock" /\ cloc[u].key = cloc[t].oldest

\* C14: get(key) returns the stored value iff the key is present and younger
\* than ttl; for a present key of age >= ttl it removes that entry, and only
\* that one, and returns None; for an absent key it returns None and changes
\* nothing.
C14_GetHonoursTtl ==
    \A t \in Callers :
        CReturned(t, "get") =>
            LET k == cloc[t].key
                present == Has(centry.cache, k)
                young == cloc[t].age < ttl
            IN  /\ cloc[t].hit = present
                /\ (present /\ young) =>
                      /\ cloc[t].res = Get(centry.cache, k)
                      /\ cache = centry.cache
                      /\ access_times = centry.access_times
                /\ (present /\ ~young) =>
                      /\ cloc[t].res = "None"
                      /\ cache = Del(centry.cache, k)
                      /\ access_times = Del(centry.access_times, k)
                /\ ~present =>
                      /\ cloc[t].res = "None"
                      /\ cache = centry.cache
                      /\ access_times = centry.access_times

\* a get of an entry of age ttl exactly, beside another entry
C14_Witness ==
    \E t \in Callers :
        /\ CReturned(t, "get")
        /\ Has(centry.cache, cloc[t].key)
        /\ cloc[t].age = ttl
        /\ cloc[t].res = "None"
        /\ Len(centry.cache) = 2
        /\ Len(cache) = 1

\* C15 (as claimed): detect_ddos returns a verdict from the cache only when it
\* was stored no more than decorator_ttl (10) earlier, and then without
\* running the model; an entry older than that is not served but recomputed.
C15_MemoHonoursDecoratorTtl ==
    \A t \in Callers :
        (cpc[t] = "ret" /\ cloc[t].op = "detect_ddos") =>
            /\ cloc[t].served => (cloc[t].age <= decorator_ttl /\ ~cloc[t].invoked)
            /\ (cloc[t].hit /\ cloc[t].age > decorator_ttl) => cloc[t].invoked

\* what the code does: the verdict is served while younger than the ttl of
\* the global PerformanceCache, as it was stored and without running the model
C15_ServedUntilCacheTtl ==
    \A t \in Callers :
        cloc[t].op = "detect_ddos" =>
            /\ cloc[t].served <=> (cloc[t].hit /\ cloc[t].age < ttl)
            /\ cloc[t].served => ~cloc[t].invoked
            /\ (cpc[t] = "ret" /\ ~cloc[t].served) => cloc[t].invoked
            /\ (cloc[t].served /\ centry.of = t /\ cpc[t] = "am_lock") =>
                  cloc[t].res = Get(centry.cache, cloc[t].key)

(***************************************************************************)
(* Properties of the RateTracker.                                          *)
(***************************************************************************)
\* the timestamps recorded for a source that lie within the window at time t
InWindow(a, t) == {i \in DOMAIN recorded[a] : t - recorded[a][i] <= window}

Spread(a) ==
    {recorded[a][i] - recorded[a][j] : i, j \in DOMAIN recorded[a]}

\* C16 (as claimed): when the N timestamps recorded for a source lie within
\* one window, pps returns N / window; and when the clock has passed every
\* recorded timestamp of the source by more than the window, pps returns 0.
C16_RateFollowsTheClock ==
    rt_last.op = "pps" =>
        LET a == rt_last.src_ip IN
        /\ (\A d \in Spread(a) : d <= window) =>
              rt_last.res * window = Len(recorded[a])
        /\ (\A i \in DOMAIN recorded[a] : now - recorded[a][i] > window) =>
              rt_last.res = 0

\* what the code does: pps is the number of retained timestamps over the
\* window whatever the clock says, and N / window for N timestamps recorded
\* within one window
C16_RateCountsRetained ==
    rt_last.op = "pps" =>
        LET a == rt_last.src_ip IN
        /\ rt_last.res * window = Len(Get(timestamps, a))
        /\ (\A d \in Spread(a) : d <= window) =>
              rt_last.res * window = Len(recorded[a])

\* C17 (as claimed): after every add(source, ts) each timestamp retained for
\* the source is at most the window older than ts.
C17_WindowHoldsAfterAdd ==
    rt_last.op = "add" =>
        LET q == Get(timestamps, rt_last.src_ip) IN
        \A i \in DOMAIN q : rt_last.ts - q[i] <= window

\* the same for a source whose timestamps arrived in non-decreasing order
C17_WindowHoldsWhenMonotone ==
    rt_last.op = "add" =>
        LET q == Get(timestamps, rt_last.src_ip)
            r == recorded[rt_last.src_ip]
        IN  (\A i, j \in DOMAIN r : i <= j => r[i] <= r[j]) =>
                \A i \in DOMAIN q : rt_last.ts - q[i] <= window

(***************************************************************************)
(* Properties of the functions of the packet pipeline.                     *)
(***************************************************************************)
\* C18: get_network_slice answers URLLC exactly when pps > 200 or the
\* protocol is "ICMP", mMTC exactly when that is not so and packet_size < 200
\* and pps < 20, and eMBB in every other case; the priority it attaches is 1
\* for URLLC, 3 for mMTC and 2 for eMBB.
C18_SliceOfPacket ==
    fn_out.fn = "get_network_slice" =>
        LET urllc == fn_in.pps > 200 * Scale \/ fn_in.protocol = "ICMP"
            mmtc == fn_in.packet_size < 200 /\ fn_in.pps < 20 * Scale
            r == fn_out.res
        IN  /\ r.slice \in {"URLLC", "mMTC", "eMBB"}
            /\ r.slice = "URLLC" <=> urllc
            /\ r.slice = "mMTC" <=> (~urllc /\ mmtc)
            /\ r.slice = "eMBB" <=> (~urllc /\ ~mmtc)
            /\ r.slice = "URLLC" => r.priority = 1
            /\ r.slice = "mMTC" => r.priority = 3
            /\ r.slice = "eMBB" => r.priority = 2

\* a small and slow ICMP packet, which meets both conditions, is URLLC
C18_Witness ==
    /\ fn_out.fn = "get_network_slice"
    /\ fn_in.protocol = "ICMP"
    /\ fn_in.packet_size < 200
    /\ fn_in.pps < 20 * Scale
    /\ fn_out.res.slice = "URLLC"
    /\ fn_out.res.priority = 1

\* C19: build_features returns EXPECTED_FEATURES elements: the nine base
\* features in their order as far as they fit, and zeros behind them.
C19_FeatureVectorLength ==
    fn_out.fn = "build_features" =>
        LET K == EXPECTED_FEATURES(fn_in.model)
            base == BaseFeatures(fn_in.packet_size, fn_in.pps)
            r == fn_out.res
        IN  /\ Len(base) = 9
            /\ Len(r) = K
            /\ \A i \in 1..K : r[i] = IF i <= 9 THEN base[i] ELSE 0

\* a model of ten features: the rate is second, the tenth feature is the pad
C19_Witness ==
    /\ fn_out.fn = "build_features"
    /\ fn_in.pps > 0
    /\ Len(fn_out.res) = 10
    /\ fn_out.res[2] = fn_in.pps
    /\ fn_out.res[10] = 0

\* C20: without a model is_ddos_attack answers whether pps > 50, and the
\* call changes nothing else.
C20_FallbackThreshold ==
    /\ [](fn_out.fn = "is_ddos_attack" /\ ~fn_in.model.loaded =>
             (fn_out.res <=> fn_in.pps > 50 * Scale))
    /\ [][fn_out'.fn = "is_ddos_attack" /\ fn_out.fn # "is_ddos_attack" =>
             UNCHANGED <<fn_in, now, engine_vars, cache_vars,
                         tracker_vars>>]_vars

\* a rate just above 50 is an attack
C20_Witness ==
    /\ fn_out.fn = "is_ddos_attack"
    /\ ~fn_in.model.loaded
    /\ fn_in.pps = 50 * Scale + 1
    /\ fn_out.res = TRUE

\* C21 (as claimed): when the model is loaded and its invocation raises,
\* is_ddos_attack answers by the fallback rule, pps > 50.
C21_FailureFallsBackToRule ==
    fn_out.fn = "is_ddos_attack" /\ fn_in.model.loaded /\ fn_in.model.fails =>
        (fn_out.res <=> fn_in.pps > 50 * Scale)

\* what the code does: a failed invocation is answered by "no attack"
C21_FailureMeansNoAttack ==
    fn_out.fn = "is_ddos_attack" /\ fn_in.model.loaded /\ fn_in.model.fails =>
        fn_out.res = FALSE

\* C22: for simulated traffic and for a source in FORCE_MALICIOUS_IPS
\* is_ddos_attack_for_ip answers "attack" whatever the size and the rate, and
\* neither build_features nor the model is invoked.
C22_ForcedVerdictSkipsDetector ==
    /\ fn_out.fn = "is_ddos_attack_for_ip"
    /\ fn_in.simulated \/ fn_in.src_ip \in fn_in.FORCE_MALICIOUS_IPS
    => fn_out.res = TRUE /\ fn_out.calls = {}

\* a slow simulated packet with a model loaded that would answer "normal"
C22_Witness ==
    /\ fn_out.fn = "is_ddos_attack_for_ip"
    /\ fn_in.simulated
    /\ fn_in.model.loaded /\ ~fn_in.model.fails /\ fn_in.model.pred = 0
    /\ fn_in.pps = 0
    /\ fn_out.res = TRUE
    /\ fn_out.calls = {}

\* C23: the threat_level of a verdict of detect_ddos is HIGH when the
\* confidence (the largest class probability) is above 0.85, MEDIUM when it
\* is above 0.6 and at most 0.85, LOW otherwise; and it is UNKNOWN exactly
\* when the detection raised.
C23_ThreatLevelOfConfidence ==
    fn_out.fn = "detect_ddos" =>
        LET confidence == fn_in.out.proba
            level == fn_out.res.threat_level
        IN  IF fn_in.out.failed THEN level = "UNKNOWN"
            ELSE /\ level = "HIGH" <=> confidence > 85000
                 /\ level = "MEDIUM" <=>
                        (60000 < confidence /\ confidence <= 85000)
                 /\ level = "LOW" <=> confidence <= 60000
                 /\ level \in {"HIGH", "MEDIUM", "LOW"}

\* a confidence of exactly 0.85 is MEDIUM
C23_Witness ==
    /\ fn_out.fn = "detect_ddos"
    /\ ~fn_in.out.failed
    /\ fn_in.out.proba = 85000
    /\ fn_out.res.threat_level = "MEDIUM"

(***************************************************************************)
(* Properties of block_ip and unblock_ip of the app and of SDNController.  *)
(***************************************************************************)
\* C24 (as claimed): a block or unblock call whose request raised or was not
\* answered with status 200 or 201 returns False, and the app's block_ip adds
\* a source to BLOCKED_IPS only after an answer with status 200 or 201.
C24_OnlyAcknowledgedCallsSucceed ==
    /\ app_last.requested /\ app_last.res => Acknowledged(app_last.r)
    /\ app_last.op = "block_ip" /\ BLOCKED_IPS # app_last.before =>
          Acknowledged(app_last.r)

\* what the code does: SDNController returns True exactly on 200 and 201;
\* the app's calls never succeed on a request that raised or was answered
\* with a 4xx or 5xx status, and succeed on every other answer
C24_SuccessNeedsAnAnswer ==
    /\ app_last.op \in {"SDNController.block_ip", "SDNController.unblock_ip"} =>
          (app_last.res <=> Acknowledged(app_last.r))
    /\ app_last.op \in {"block_ip", "unblock_ip"} /\ app_last.requested =>
          /\ app_last.res <=> Accepted(app_last.r)
          /\ BLOCKED_IPS # app_last.before => Accepted(app_last.r)

\* C25 (as claimed): unblocking a source that has no BlockRecord, and
\* blocking a source that has one, return success and leave the registry as
\* it was.
C25_RepeatedCallIsSafe ==
    \A t \in Callers :
        /\ Returned(t, "unblock_ip") /\ ~Has(entry.reg, loc[t].ip) =>
              /\ loc[t].res.status = "True"
              /\ blocked_ips = entry.reg
        /\ Returned(t, "block_ip") /\ Has(entry.reg, loc[t].ip) =>
              /\ loc[t].res.status = "True"
              /\ blocked_ips = entry.reg

\* the engine's unblock_ip of a source without a BlockRecord does leave the
\* registry alone and calls nobody, but it returns False
C25_UnblockOfUnknownIsRefused ==
    \A t \in Callers :
        Returned(t, "unblock_ip") /\ ~Has(entry.reg, loc[t].ip) =>
            /\ loc[t].res.status = "False"
            /\ blocked_ips = entry.reg
            /\ sdn_blocked = entry.sdn

\* block_ip and unblock_ip of the app are idempotent: a source already in
\* BLOCKED_IPS is blocked, and one not in it unblocked, with True and
\* without a request
C25_AppCallsAreIdempotent ==
    /\ app_last.op = "block_ip" /\ app_last.ip \in app_last.before =>
          app_last.res /\ ~app_last.requested /\ BLOCKED_IPS = app_last.before
    /\ app_last.op = "unblock_ip" /\ app_last.ip \notin app_last.before =>
          app_last.res /\ ~app_last.requested /\ BLOCKED_IPS = app_last.before

\* C26 (as claimed): whatever execute_mitigation, block_ip and unblock_ip
\* calls run beside it, the clean-up thread is never terminated.
C26_SweepKeepsRunning == pc[Sweeper] # "dead"

\* with the handlers one at a time no exception reaches cleanup_loop
C26_SweepAloneKeepsRunning == pc[Sweeper] \notin {"dead", "raised"}

\* C27: an execute_mitigation call for a valid source without a BlockRecord
\* calls the control plane exactly when the prediction is ddos and the
\* confidence is at least ddos_threshold; otherwise it returns normal and
\* leaves registry, history and controller as they were.  The call that
\* blocks adds one BlockRecord with packets_blocked = 0 and one BLOCKED entry.
C27_UnseenSourceIsBlockedAtThreshold ==
    \A t \in Callers :
        (/\ Returned(t, "execute_mitigation")
         /\ loc[t].ip \in ValidIPs
         /\ ~Has(entry.reg, loc[t].ip)) =>
            LET threat == /\ is_ddos(entry.det)
                          /\ Confidence(entry.det) >= ddos_threshold
                st == loc[t].res.status
            IN  /\ block_calls = entry.calls + (IF threat THEN 1 ELSE 0)
                /\ ~threat =>
                      /\ st = "normal"
                      /\ blocked_ips = entry.reg
                      /\ mitigation_history = entry.hist
                      /\ sdn_blocked = entry.sdn
                /\ threat => (st = "blocked" <=> loc[t].success)
                /\ st = "blocked" =>
                      /\ Len(blocked_ips) = Len(entry.reg) + 1
                      /\ Keys(blocked_ips) = Keys(entry.reg) \cup {loc[t].ip}
                      /\ Get(blocked_ips, loc[t].ip).packets_blocked = 0
                      /\ Len(mitigation_history) = Len(entry.hist) + 1
                      /\ SubSeq(mitigation_history, 1, Len(entry.hist)) = entry.hist
                      /\ mitigation_history[Len(mitigation_history)].action = "BLOCKED"
                      /\ mitigation_history[Len(mitigation_history)].ip = loc[t].ip

\* a verdict at the threshold ('DDoS', 0.5) has blocked an unseen source
C27_Witness ==
    \E t \in Callers :
        /\ Returned(t, "execute_mitigation")
        /\ ~Has(entry.reg, loc[t].ip)
        /\ Confidence(entry.det) = ddos_threshold
        /\ loc[t].res.status = "blocked"
        /\ Get(blocked_ips, loc[t].ip).packets_blocked = 0

\* a ddos verdict just below the threshold leaves an unseen source alone
C27_BelowThresholdIsNormal ==
    \A t \in Callers :
        (/\ Returned(t, "execute_mitigation")
         /\ loc[t].ip \in ValidIPs
         /\ ~Has(entry.reg, loc[t].ip)
         /\ Confidence(entry.det) < ddos_threshold) =>
            loc[t].res.status = "normal" /\ block_calls = entry.calls

\* C28 (as claimed): as long as a source keeps its BlockRecord, no step
\* changes the record's timestamp or lowers its packets_blocked.
C28_RecordIsCreatedOnce ==
    [][\A ip \in ValidIPs :
          Has(blocked_ips, ip) /\ Has(blocked_ips', ip) =>
              /\ Get(blocked_ips', ip).timestamp = Get(blocked_ips, ip).timestamp
              /\ Get(blocked_ips', ip).packets_blocked >=
                    Get(blocked_ips, ip).packets_blocked
      ]_vars

\* the same for the steps of every handler but block_ip called on its own
C28_RecordKeptByOtherHandlers ==
    [][(\A t \in Callers : op[t] # "block_ip") =>
          \A ip \in ValidIPs :
              Has(blocked_ips, ip) /\ Has(blocked_ips', ip) =>
                  /\ Get(blocked_ips', ip).timestamp =
                        Get(blocked_ips, ip).timestamp
                  /\ Get(blocked_ips', ip).packets_blocked >=
                        Get(blocked_ips, ip).packets_blocked
      ]_vars

\* C29 (as claimed): whenever no handler is running, a source has a
\* BlockRecord exactly if the control-plane call that succeeded last for it
\* was a block.
C29_RegistryAgreesWithController ==
    Quiet => \A ip \in ValidIPs :
                 Has(blocked_ips, ip) <=> last_ok[ip] = "block"

\* with the handlers one at a time registry and controller do agree
C29_AgreesWhenSequential ==
    (\A t \in Threads : pc[t] = "idle") =>
        \A ip \in ValidIPs : Has(blocked_ips, ip) <=> last_ok[ip] = "block"

\* C30 (as claimed): a set of a key that is in the store replaces its value
\* and removes no other entry, however full the store is.
C30_ReplaceEvictsNothing ==
    \A t \in Callers :
        (CReturned(t, "set") /\ Has(centry.cache, cloc[t].key)) =>
            /\ Keys(cache) = Keys(centry.cache)
            /\ Get(cache, cloc[t].key) = cloc[t].val
            /\ \A k \in Keys(centry.cache) \ {cloc[t].key} :
                  /\ Get(cache, k) = Get(centry.cache, k)
                  /\ Get(access_times, k) = Get(centry.access_times, k)

\* what the code does: the replacement keeps the other entries as long as
\* the store holds fewer than max_size entries; at max_size the entry stored
\* first goes, as for a new key
C30_ReplaceEvictsWhenFull ==
    \A t \in Callers :
        (CReturned(t, "set") /\ Has(centry.cache, cloc[t].key)) =>
            /\ Get(cache, cloc[t].key) = cloc[t].val
            /\ Len(centry.cache) < max_size =>
                  /\ Keys(cache) = Keys(centry.cache)
                  /\ \A k \in Keys(centry.cache) \ {cloc[t].key} :
                        Get(cache, k) = Get(centry.cache, k)
            /\ Len(centry.cache) >= max_size =>
                  Keys(cache) = (Keys(centry.cache) \ {cloc[t].oldest})
                                    \cup {cloc[t].key}

(***************************************************************************)
(* RateTracker.pps and the table of tracked sources.                       *)
(***************************************************************************)
\* C31 (as claimed): pps of a source that was never recorded returns 0.0
\* and creates no entry for it, so that every source in the tracker's table
\* has been recorded by add.
C31_PpsLeavesTheTableAlone ==
    /\ \A a \in RateSources : Has(timestamps, a) => recorded[a] # <<>>
    /\ (rt_last.op = "pps" /\ recorded[rt_last.src_ip] = <<>>) =>
           rt_last.res = 0

\* what the code does: pps of a source that was never recorded returns 0.0
\* and leaves an entry with an empty deque for it in the table; an entry of
\* a recorded source is never empty, and no entry is ever removed
C31_PpsInsertsAnEmptyEntry ==
    /\ rt_last.op = "pps" =>
           /\ Has(timestamps, rt_last.src_ip)
           /\ recorded[rt_last.src_ip] = <<>> =>
                  /\ rt_last.res = 0
                  /\ Get(timestamps, rt_last.src_ip) = <<>>
    /\ \A a \in RateSources :
           /\ recorded[a] # <<>> => Has(timestamps, a)
           /\ Has(timestamps, a) =>
                  (Get(timestamps, a) = <<>> <=> recorded[a] = <<>>)

C31_TableOnlyGrows ==
    [][Keys(timestamps) \subseteq Keys(timestamps')]_vars

(***************************************************************************)
(* The capture flag and the capture threads.                               *)
(***************************************************************************)
\* the thread started last
Latest == Len(capture)

\* at most one capture thread is inside sniff
C32_AtMostOneCapture ==
    Cardinality({i \in CaptureThreads : Capturing(i)}) <= 1

\* while the thread started last is inside sniff and no stop request has
\* run since the flag was set last, the flag is true
C32_FlagHeldForLatest ==
    (Capturing(Latest) /\ ~stop_seen) => running

\* C32 (as claimed): under any interleaving of start and stop requests with
\* the exit of capture threads, at most one capture thread is active, and
\* the running flag is true while the capture thread of the latest start
\* request is active: an older thread that exits does not clear it.
C32_OneCaptureHoldsTheFlag ==
    C32_AtMostOneCapture /\ C32_FlagHeldForLatest

\* what the code does keep: the flag is true only while a capture thread
\* is alive or a start request is about to start one
C32_FlagNeedsACapture ==
    running => \/ \E i \in CaptureThreads : Alive(i)
               \/ \E t \in Callers : req[t] = "start"

====
